---------------------------- MODULE Spec2Model ----------------------------
(***************************************************************************)
(* A model of the insight cache, the request fingerprint, the funnel       *)
(* metrics calculator, the outlier detector, the storage optimizer, the    *)
(* funnel-analysis endpoint, the batch processor, the rate limiter of the  *)
(* AI client, the Redis cache and the background sync of the GA4 funnel    *)
(* analysis service.                                                       *)
(*                                                                         *)
(*   Spec          CacheManager called sequentially                        *)
(*   SpecCorrupt   the same, with a stored timestamp that may be damaged   *)
(*   SpecKey       generate_cache_key on pairs of request shapes           *)
(*   SpecMetrics   calculate_funnel_metrics on funnel data                 *)
(*   SpecOutliers  detect_funnel_outliers on calculated metrics            *)
(*   SpecSeverity  calculate_severity on deviations and thresholds         *)
(*   SpecStorage   prepare_for_n8n_storage applied once and again          *)
(*   SpecEndpoint  funnel_analysis_endpoint, one request after the other   *)
(*   SpecConc      request handlers running concurrently on the cache      *)
(*   SpecFrame     CacheManager with the calls that only read              *)
(*   SpecBatch     BatchProcessor on historical records                    *)
(*   SpecLimiter   generate_funnel_insights entered by concurrent handlers *)
(*   SpecRedis     RedisCacheManager on Redis or on the MockRedisClient    *)
(*   SpecScheduler BackgroundSyncService started and stopped               *)
(*                                                                         *)
(* Time is a discrete clock `now`; a stored 'timestamp' is the clock value *)
(* datetime.now() returned when the entry was written.  The cache is the   *)
(* Python dict CacheManager.cache, kept as the sequence of its entries in  *)
(* dict (insertion) order, because sorted() is stable and so the dict      *)
(* order decides which of two entries with equal timestamps is evicted.    *)
(***************************************************************************)
EXTENDS Integers, Sequences, FiniteSets, TLC

(***************************************************************************)
(* Bounds of the model.                                                    *)
(***************************************************************************)
\* a cache that starts empty has max_cache_size in 1..MaxCapacity
MaxCapacity == 2
\* the clock runs over 0..MaxTime
MaxTime == 2
\* cache_duration (the TTL), in clock ticks
CacheDuration == 1
\* the number of calls explored on a cache that starts warmed up
MaxCalls == 1
\* the longest dimension list of a fingerprinted request
MaxDimensions == 2
\* the largest event count of a funnel step
MaxCount == 3
\* the request handler threads running at once
Handlers == 2
\* the requests the concurrent handlers take in all
MaxRequests == 3
\* the funnel data handed to the outlier detection has at most MaxSegments segments
MaxSegments == 2
\* the deviations handed to calculate_severity run up to MaxDeviation hundredths
MaxDeviation == 60
\* each list of the insights handed to prepare_for_n8n_storage has at most MaxItems
\* entries, a text may be MaxOver characters longer than it may stay, and the
\* function is applied MaxApplications times in a row
MaxItems == 6
MaxOver == 1
MaxApplications == 2
\* a list of historical records has at most MaxRecords of them
MaxRecords == 3
\* the clock of the rate limiter, of the Redis cache and of the background sync runs
\* up to MaxClock
MaxClock == 6
\* the most threads start_scheduler starts
MaxThreads == 2

\* _min_call_interval, 1.0 second, in half seconds
min_call_interval == 2
\* RedisCacheManager.default_ttl, 14400 seconds, in hours
default_ttl == 4
\* the divisor of "self.max_cache_size // 4"
EvictionDivisor == 4
\* the capacity of the warmed-up cache: the smallest whose 25% is two entries
WarmCapacity == 2 * EvictionDivisor

\* insight payloads handed to save_insights
Payloads == {"p1", "p2"}
\* Python's None
None == "None"
\* a dict of rates, as the sequence of its <<key, value>> items in dict order, and
\* None where such a dict is expected
Dict(items) == [given |-> TRUE, items |-> items]
NoDict == [given |-> FALSE, items |-> <<>>]

VARIABLES
    max_cache_size,   \* CacheManager.max_cache_size
    cache,            \* CacheManager.cache, in dict order
    now,              \* the wall clock read by datetime.now()
    lastCall,         \* the step just taken: a CacheManager call with its arguments,
                      \* its result and the keys it evicted, or the passing of time
    calls,            \* the calls made so far on a cache that started warmed up
    dataA, dataB,             \* two request shapes handed to generate_cache_key
    cache_keyA, cache_keyB,   \* the fingerprints returned for them
    funnel_data,              \* the argument of calculate_funnel_metrics
    funnel_metrics,           \* what calculate_funnel_metrics returned or raised
    lastRequest,              \* what the last request to the funnel endpoint did
    pc,               \* the statement each concurrent handler is about to execute
    local,            \* the locals of each concurrent handler
    started,          \* the requests the concurrent handlers have taken
    lastGenerated,    \* per fingerprint, when the generator was last invoked for it
                      \* (-1 if never, or if the entry saved for it has been removed)
    baseline_given,   \* the baseline_rates handed to detect_funnel_outliers
    threshold_given,  \* the threshold handed to it, and to calculate_severity
    outliers_found,   \* what detect_funnel_outliers returned or raised
    deviation_given,  \* the deviation handed to calculate_severity
    severity_found,   \* what calculate_severity returned
    payload,          \* the insights handed to prepare_for_n8n_storage, then its result
    previous,         \* the argument of the last call of prepare_for_n8n_storage
    applications,     \* how many times prepare_for_n8n_storage has been applied
    clock,            \* the wall clock the services below read
    processor,        \* a BatchProcessor: max_batch_size and max_storage_bytes
    historical_data,  \* the historical records handed to it
    batched,          \* its last call: the arguments and what it returned or raised
    last_api_call,    \* ai_insights._last_api_call
    limited,          \* the handlers inside generate_funnel_insights: where each is
    api_calls,        \* the times of the calls made to the external model, in order
    redis_client,     \* RedisCacheManager.redis_client: Redis or the mock, and its data
    fetched,          \* the last call on the RedisCacheManager and what it returned
    running,          \* BackgroundSyncService.running
    jobs,             \* the jobs of the schedule module: when each runs next
    sync_threads,     \* the threads start_scheduler has started: where each is
    caller            \* where the caller of start_scheduler and stop_scheduler is

cacheVars == <<max_cache_size, cache, now, lastCall, calls>>
keyVars == <<dataA, dataB, cache_keyA, cache_keyB>>
metricVars == <<funnel_data, funnel_metrics>>
endpointVars == <<lastRequest>>
concVars == <<pc, local, started, lastGenerated>>
detectVars == <<baseline_given, threshold_given, outliers_found>>
severityVars == <<deviation_given, severity_found>>
storageVars == <<payload, previous, applications>>
analysisVars == <<detectVars, severityVars, storageVars>>
batchVars == <<processor, historical_data, batched>>
limiterVars == <<last_api_call, limited, api_calls>>
redisVars == <<redis_client, fetched>>
schedulerVars == <<running, jobs, sync_threads, caller>>
serviceVars == <<clock, batchVars, limiterVars, redisVars, schedulerVars>>

vars == <<cacheVars, keyVars, metricVars, endpointVars, concVars, analysisVars, serviceVars>>

\* what the CacheManager calls, the fingerprint calls and the metric calls leave alone
exceptCache == <<keyVars, metricVars, endpointVars, concVars, analysisVars, serviceVars>>
exceptKeys == <<cacheVars, metricVars, endpointVars, concVars, analysisVars, serviceVars>>
exceptMetrics == <<cacheVars, keyVars, endpointVars, concVars, analysisVars, serviceVars>>
\* what the calls of the outlier detection, of calculate_severity and of
\* prepare_for_n8n_storage leave alone
exceptDetect == <<cacheVars, keyVars, metricVars, endpointVars, concVars,
                  severityVars, storageVars, serviceVars>>
exceptSeverity == <<cacheVars, keyVars, metricVars, endpointVars, concVars,
                    detectVars, storageVars, serviceVars>>
exceptStorage == <<cacheVars, keyVars, metricVars, endpointVars, concVars,
                   detectVars, severityVars, serviceVars>>
\* what the services leave alone, and what each of them leaves alone
exceptServices == <<cacheVars, keyVars, metricVars, endpointVars, concVars, analysisVars>>
exceptBatch == <<exceptServices, limiterVars, redisVars, schedulerVars>>
exceptLimiter == <<exceptServices, batchVars, redisVars, schedulerVars>>
exceptRedis == <<exceptServices, batchVars, limiterVars, schedulerVars>>
exceptScheduler == <<exceptServices, batchVars, limiterVars, redisVars>>

\* the cache keys (fingerprints) in use: one more than fit, so that the cache overflows
Keys == 1..(max_cache_size + 1)

Abs(x) == IF x < 0 THEN -x ELSE x

Max(a, b) == IF a >= b THEN a ELSE b

(***************************************************************************)
(* CacheManager (src/cache_manager.py)                                     *)
(***************************************************************************)
\* the keys of the dict
CacheKeys(c) == {c[i].key : i \in DOMAIN c}

\* "cache_key in self.cache"
Contains(c, k) == k \in CacheKeys(c)

\* self.cache[cache_key]
Lookup(c, k) == c[CHOOSE i \in DOMAIN c : c[i].key = k]

\* del self.cache[cache_key]
Delete(c, k) == SelectSeq(c, LAMBDA e : e.key # k)

\* self.cache[cache_key] = entry : an existing key keeps its place in the dict
Store(c, e) ==
    IF Contains(c, e.key)
    THEN [i \in DOMAIN c |-> IF c[i].key = e.key THEN e ELSE c[i]]
    ELSE Append(c, e)

\* the entry save_insights writes: {'timestamp': datetime.now().isoformat(), 'insights': insights}
\* valid = the stored string parses with datetime.fromisoformat
NewEntry(k, p, t) == [key |-> k, timestamp |-> t, valid |-> TRUE, insights |-> p]

\* datetime.fromisoformat raises ValueError on some entry of c
Unparseable(c) == \E i \in DOMAIN c : ~c[i].valid

\* entries_to_remove without the floor of one entry
entries_to_remove_unfloored(cap) == cap \div EvictionDivisor

\* entries_to_remove = max(1, self.max_cache_size // 4)
entries_to_remove(cap) == Max(1, cap \div EvictionDivisor)

\* the place of c[i] under sorted(..., reverse=True)
SortedPlace_reversed(c, i) ==
    1 + Cardinality({j \in DOMAIN c :
                        \/ c[j].timestamp > c[i].timestamp
                        \/ c[j].timestamp = c[i].timestamp /\ j < i})

\* the place of c[i] in sorted(self.cache.items(), key=timestamp): sorted() is stable,
\* so c[i] comes after the earlier entries and after the equally old ones before it in c
SortedPlace(c, i) ==
    1 + Cardinality({j \in DOMAIN c :
                        \/ c[j].timestamp < c[i].timestamp
                        \/ c[j].timestamp = c[i].timestamp /\ j < i})

\* the keys of sorted_entries[:entries_to_remove], which the loop deletes
Victims(c, cap) ==
    {c[i].key : i \in {j \in DOMAIN c : SortedPlace(c, j) <= entries_to_remove(cap)}}

\* _cleanup_oldest_entries
cleanup_oldest_entries(c, cap) ==
    LET gone == Victims(c, cap)
    IN  SelectSeq(c, LAMBDA e : e.key \notin gone)

\* a save that rejects the write when the cache is full
SavedCache_rejecting(c, cap, k, p, t) ==
    IF Len(c) >= cap THEN c ELSE Store(c, NewEntry(k, p, t))

\* the dict save_insights leaves: evict if full, then store
SavedCache(c, cap, k, p, t) ==
    LET c1 == IF Len(c) >= cap THEN cleanup_oldest_entries(c, cap) ELSE c
    IN  Store(c1, NewEntry(k, p, t))

\* an expiry test that already expires an entry whose age equals the TTL
Expired_early(e, t) == t - e.timestamp >= CacheDuration

\* the expiry test of get_cached_insights
Expired(e, t) == t - e.timestamp > CacheDuration

Record(op, k, p, res, ev) ==
    [op |-> op, key |-> k, insights |-> p, result |-> res, evicted |-> ev]

\* a lookup whose hit renews the entry's timestamp (a sliding TTL)
Got_sliding(c, k, t) ==
    IF ~Contains(c, k)
    THEN [cache |-> c, result |-> None, evicted |-> {}]
    ELSE IF Expired(Lookup(c, k), t)
    THEN [cache |-> Delete(c, k), result |-> None, evicted |-> {k}]
    ELSE [cache |-> Store(c, [Lookup(c, k) EXCEPT !.timestamp = t]),
          result |-> Lookup(c, k).insights, evicted |-> {}]

\* get_cached_insights(k) at time t on dict c: the dict it leaves, what it returns
\* (the exception's name if it raises) and the keys it removed
Got(c, k, t) ==
    IF ~Contains(c, k)
    THEN [cache |-> c, result |-> None, evicted |-> {}]
    ELSE IF ~Lookup(c, k).valid
    THEN [cache |-> c, result |-> "ValueError", evicted |-> {}]
    ELSE IF Expired(Lookup(c, k), t)
    THEN [cache |-> Delete(c, k), result |-> None, evicted |-> {k}]
    ELSE [cache |-> c, result |-> Lookup(c, k).insights, evicted |-> {}]

\* save_insights(k, p) at time t on dict c of capacity cap, likewise
Saved(c, cap, k, p, t) ==
    IF Len(c) >= cap /\ Unparseable(c)
    THEN [cache |-> c, result |-> "ValueError", evicted |-> {}]
    ELSE [cache |-> SavedCache(c, cap, k, p, t), result |-> None,
          evicted |-> IF Len(c) >= cap THEN Victims(c, cap) ELSE {}]

\* get_cache_stats() on dict c of capacity cap: the counts and the oldest and newest
\* timestamps it returns (<<>> for None), or the exception's name if it raises; the
\* sizes in bytes and the percentage are left out
get_cache_stats(c, cap) ==
    IF Unparseable(c) THEN "ValueError"
    ELSE IF cap = 0 THEN "ZeroDivisionError"
    ELSE LET timestamps == {c[i].timestamp : i \in DOMAIN c}
         IN  [total_entries |-> Len(c),
              max_cache_size |-> cap,
              oldest_entry |-> IF c # <<>>
                               THEN <<CHOOSE t \in timestamps : \A u \in timestamps : t <= u>>
                               ELSE <<>>,
              newest_entry |-> IF c # <<>>
                               THEN <<CHOOSE t \in timestamps : \A u \in timestamps : t >= u>>
                               ELSE <<>>]

(***************************************************************************)
(* CacheManager.generate_cache_key (src/cache_manager.py)                  *)
(*                                                                         *)
(* A request shape is [dimensions, property_id, date_range,                *)
(* baseline_rates]: dimensions a list of names, baseline_rates None        *)
(* (given = FALSE) or a dict, kept as the sequence of its <<key, value>>   *)
(* items in dict order.                                                    *)
(* json.dumps writes a dict as the text of its items; that text is kept as *)
(* the sequence of the items written, in the order written.                *)
(***************************************************************************)
\* the dimension names in use, in Python's string order
DimensionNames == <<"browser", "deviceCategory">>
\* the keys of a baseline dict, in Python's string order
BaselineKeys == <<"add_to_cart_to_purchase", "overall_conversion", "view_item_to_add_to_cart">>

\* the place of string x in Python's order of the strings of `order`
StrRank(order, x) == CHOOSE i \in DOMAIN order : order[i] = x

\* the place of item i in a stable sort of items with these ranks
PlaceIn(ranks, i) ==
    1 + Cardinality({j \in DOMAIN ranks :
                        \/ ranks[j] < ranks[i]
                        \/ ranks[j] = ranks[i] /\ j < i})

\* sorted(l) for a list of strings
sorted(l, order) ==
    LET ranks == [i \in DOMAIN l |-> StrRank(order, l[i])]
    IN  [r \in 1..Len(l) |-> l[CHOOSE i \in DOMAIN l : PlaceIn(ranks, i) = r]]

\* json.dumps(d, sort_keys=True) of a dict of numbers: the items, sorted by key
\* (null for None)
dumps_dict(d) ==
    LET ranks == [i \in DOMAIN d.items |-> StrRank(BaselineKeys, d.items[i][1])]
    IN  [null |-> ~d.given,
         items |-> [r \in 1..Len(d.items) |->
                      d.items[CHOOSE i \in DOMAIN d.items : PlaceIn(ranks, i) = r]]]

\* json.dumps({...}, sort_keys=True) of the canonical record: its four items by key
dumps(rec) ==
    << <<"baseline_rates", dumps_dict(rec.baseline_rates)>>,
       <<"date_range", rec.date_range>>,
       <<"dimensions", rec.dimensions>>,
       <<"property_id", rec.property_id>> >>

\* hashlib.md5(text).hexdigest(): a digest that differs for different texts
md5(text) == <<"md5", text>>

\* generate_cache_key with the dimensions taken as given
cache_key_unsorted(data) ==
    md5(dumps([dimensions |-> data.dimensions,
               property_id |-> data.property_id,
               date_range |-> data.date_range,
               baseline_rates |-> data.baseline_rates]))

\* CacheManager.generate_cache_key(data)
cache_key_of(data) ==
    md5(dumps([dimensions |-> sorted(data.dimensions, DimensionNames),
               property_id |-> data.property_id,
               date_range |-> data.date_range,
               baseline_rates |-> data.baseline_rates]))

\* no fingerprint computed yet
NoKey == <<>>
\* no request shape
NoData == [dimensions |-> <<>>, property_id |-> None, date_range |-> None,
           baseline_rates |-> [given |-> FALSE, items |-> <<>>]]

(***************************************************************************)
(* Python floats: IEEE-754 binary64 with round-to-nearest, ties-to-even    *)
(*                                                                         *)
(* A mantissa has 53 bits, more than an integer of the model holds, so it  *)
(* is kept as a sequence of digits in base 2^15, least significant first.  *)
(* An operator that uses an argument several times takes it as the element *)
(* of a set, which is evaluated once.                                      *)
(***************************************************************************)
\* the element of a set of one element
The(S) == CHOOSE v \in S : TRUE

RadixBits == 15
Radix == 2 ^ RadixBits
MantissaBits == 53

\* a natural number without its leading zero digits
RECURSIVE Trim(_)
Trim(a) ==
    IF a = <<>> THEN a
    ELSE IF a[Len(a)] = 0 THEN Trim(SubSeq(a, 1, Len(a) - 1)) ELSE a

\* the digits of an integer n >= 0, and the integer of digits that fit one
RECURSIVE Big(_)
Big(n) == IF n = 0 THEN <<>> ELSE <<n % Radix>> \o Big(n \div Radix)

RECURSIVE Small(_)
Small(a) == IF a = <<>> THEN 0 ELSE a[1] + Radix * Small(Tail(a))

Digit(a, i) == IF i <= Len(a) THEN a[i] ELSE 0

\* -1, 0, 1 as a < b, a = b, a > b, looking at the digits from place i down
RECURSIVE CompareFrom(_, _, _)
CompareFrom(a, b, i) ==
    IF i = 0 THEN 0
    ELSE IF Digit(a, i) > Digit(b, i) THEN 1
    ELSE IF Digit(a, i) < Digit(b, i) THEN -1
    ELSE CompareFrom(a, b, i - 1)

Compare(a, b) == CompareFrom(a, b, Max(Len(a), Len(b)))

RECURSIVE AddFrom(_, _, _, _)
AddFrom(a, b, i, carry) ==
    IF i > Max(Len(a), Len(b)) THEN (IF carry = 0 THEN <<>> ELSE <<carry>>)
    ELSE LET s == Digit(a, i) + Digit(b, i) + carry
         IN  <<s % Radix>> \o AddFrom(a, b, i + 1, s \div Radix)

Add(a, b) == AddFrom(a, b, 1, 0)

\* a - b for a >= b
RECURSIVE SubFrom(_, _, _, _)
SubFrom(a, b, i, borrow) ==
    IF i > Len(a) THEN <<>>
    ELSE LET s == Digit(a, i) - Digit(b, i) - borrow
         IN  IF s < 0 THEN <<s + Radix>> \o SubFrom(a, b, i + 1, 1)
             ELSE <<s>> \o SubFrom(a, b, i + 1, 0)

Sub(a, b) == Trim(SubFrom(a, b, 1, 0))

\* a * s for a one-digit s
RECURSIVE TimesFrom(_, _, _, _)
TimesFrom(a, s, i, carry) ==
    IF i > Len(a) THEN (IF carry = 0 THEN <<>> ELSE <<carry>>)
    ELSE LET p == a[i] * s + carry
         IN  <<p % Radix>> \o TimesFrom(a, s, i + 1, p \div Radix)

Times(a, s) == Trim(TimesFrom(a, s, 1, 0))

\* quotient and remainder of a by a one-digit s > 0
RECURSIVE DivFrom(_, _, _, _)
DivFrom(a, s, i, rem) ==
    IF i = 0 THEN [q |-> <<>>, r |-> rem]
    ELSE LET cur == rem * Radix + a[i]
             rest == DivFrom(a, s, i - 1, cur % s)
         IN  [q |-> rest.q \o <<cur \div s>>, r |-> rest.r]

Div(a, s) ==
    The({[q |-> Trim(d.q), r |-> d.r] : d \in {DivFrom(a, s, Len(a), 0)}})

\* a * 2^n
ShiftLeft(a, n) == Times([i \in 1..(n \div RadixBits) |-> 0] \o a, 2 ^ (n % RadixBits))

\* a \div 2^n, and whether a bit that is set was dropped
ShiftRight(a, n) ==
    The({LET whole == IF n \div RadixBits < Len(v) THEN n \div RadixBits ELSE Len(v)
             d == Div(SubSeq(v, whole + 1, Len(v)), 2 ^ (n - whole * RadixBits))
         IN  [q |-> d.q, sticky |-> d.r # 0 \/ \E i \in 1..whole : v[i] # 0] :
         v \in {a}})

RECURSIVE Bits(_)
Bits(n) == IF n = 0 THEN 0 ELSE 1 + Bits(n \div 2)

BitLength(a) == IF a = <<>> THEN 0 ELSE RadixBits * (Len(a) - 1) + Bits(a[Len(a)])

IsOdd(a) == a # <<>> /\ a[1] % 2 = 1

\* q with its last bit dropped and the result rounded to nearest, ties to even;
\* sticky says that the exact value lies above q
HalfEven(q, sticky) ==
    The({LET k == ShiftRight(v, 1).q
         IN  IF IsOdd(v) /\ (sticky \/ IsOdd(k)) THEN Add(k, <<1>>) ELSE k :
         v \in {q}})

\* a float is (-1)^neg * m * 2^e with a mantissa m of exactly 53 bits, or zero
FloatZero == [neg |-> FALSE, m |-> <<>>, e |-> 0]

\* the float nearest to q * 2^e (to a value strictly between q and q + 1 times 2^e
\* when sticky, and then q has more than 54 bits)
Nearest(neg, q, sticky, e) ==
    The({LET drop == BitLength(v) - MantissaBits
         IN  IF v = <<>> THEN FloatZero
             ELSE IF drop <= 0
             THEN [neg |-> neg, m |-> ShiftLeft(v, -drop), e |-> e + drop]
             ELSE The({IF BitLength(m) > MantissaBits
                       THEN [neg |-> neg, m |-> ShiftRight(m, 1).q, e |-> e + drop + 1]
                       ELSE [neg |-> neg, m |-> m, e |-> e + drop] :
                       m \in {The({HalfEven(cut.q, cut.sticky \/ sticky) :
                                      cut \in {ShiftRight(v, drop - 1)}})}}) :
         v \in {q}})

\* a / b for integers a and b with 0 < b <= 2^15 (int.__truediv__), which is also the
\* float of a decimal literal a / 10^k: the nearest float to the exact quotient
Ratio(a, b) ==
    The({Nearest(a < 0, d.q, d.r # 0, -(5 * RadixBits)) :
         d \in {Div(ShiftLeft(Big(Abs(a)), 5 * RadixBits), b)}})

\* x - y (float.__sub__)
FloatSub(x, y) ==
    The({LET e == IF v.e < w.e THEN v.e ELSE w.e
         IN  IF w.m = <<>> THEN v
             ELSE IF v.m = <<>> THEN [w EXCEPT !.neg = ~w.neg]
             ELSE The({IF v.neg # w.neg THEN Nearest(v.neg, Add(X, Y), FALSE, e)
                       ELSE IF Compare(X, Y) = 0 THEN FloatZero
                       ELSE IF Compare(X, Y) > 0 THEN Nearest(v.neg, Sub(X, Y), FALSE, e)
                       ELSE Nearest(~v.neg, Sub(Y, X), FALSE, e) :
                       X \in {ShiftLeft(v.m, v.e - e)}, Y \in {ShiftLeft(w.m, w.e - e)}}) :
         v \in {x}, w \in {y}})

\* one more bit of the quotient of a long division by d: the remainder so far and
\* the quotient so far, doubled, and d taken off the remainder if it fits
LongDivStep(s, d) ==
    The({IF Compare(twice, d) >= 0
         THEN [rem |-> Sub(twice, d), q |-> Add(Times(s.q, 2), <<1>>)]
         ELSE [rem |-> twice, q |-> Times(s.q, 2)] :
         twice \in {Times(s.rem, 2)}})

\* n more bits, the first half of them and then the rest
RECURSIVE LongDiv(_, _, _)
LongDiv(s, d, n) ==
    IF n = 0 THEN s
    ELSE IF n = 1 THEN LongDivStep(s, d)
    ELSE The({LongDiv(half, d, n - n \div 2) : half \in {LongDiv(s, d, n \div 2)}})

\* x / y for y # 0 (float.__truediv__): the bit above the binary point of the
\* quotient of the mantissas and 56 bits below it, rounded
FloatDiv(x, y) ==
    The({IF v.m = <<>> THEN FloatZero
         ELSE The({Nearest(v.neg # w.neg, d.q, d.rem # <<>>,
                           v.e - w.e - (MantissaBits + 3)) :
                   d \in {LongDiv(IF Compare(v.m, w.m) >= 0
                                  THEN [rem |-> Sub(v.m, w.m), q |-> <<1>>]
                                  ELSE [rem |-> v.m, q |-> <<>>],
                                  w.m, MantissaBits + 3)}}) :
         v \in {x}, w \in {y}})

\* x * (s * 2^t) for a small integer s: x * 2 and x * 1.5 (float.__mul__)
FloatScale(x, s, t) == The({Nearest(v.neg, Times(v.m, s), FALSE, v.e + t) : v \in {x}})

\* -1, 0, 1 as abs(x) < abs(y), abs(x) = abs(y), abs(x) > abs(y)
FloatCompareAbs(x, y) ==
    The({IF v.m = <<>> \/ w.m = <<>>
         THEN (IF v.m # <<>> THEN 1 ELSE IF w.m # <<>> THEN -1 ELSE 0)
         ELSE IF v.e > w.e THEN 1
         ELSE IF v.e < w.e THEN -1
         ELSE Compare(v.m, w.m) :
         v \in {x}, w \in {y}})

\* round(x, 4) in units of 0.0001 (float.__round__): the exact value of the float is
\* rounded to the nearest multiple, ties to even
FloatRound4(x) ==
    The({LET n == Times(v.m, 10000)
             k == IF v.e >= 0 THEN ShiftLeft(n, v.e)
                  ELSE The({HalfEven(cut.q, cut.sticky) : cut \in {ShiftRight(n, -v.e - 1)}})
         IN  IF v.neg THEN -Small(k) ELSE Small(k) :
         v \in {x}})

\* a * b
RECURSIVE Mul(_, _)
Mul(a, b) ==
    IF b = <<>> THEN <<>>
    ELSE The({Trim(Add(Times(a, b[1]), <<0>> \o rest)) : rest \in {Mul(a, Tail(b))}})

\* float(n) of an integer n of the model, which a mantissa holds exactly
Float(n) == Nearest(n < 0, Big(Abs(n)), FALSE, 0)

\* x * y (float.__mul__)
FloatMul(x, y) ==
    The({Nearest(v.neg # w.neg, Mul(v.m, w.m), FALSE, v.e + w.e) : v \in {x}, w \in {y}})

\* int(x) (float.__int__): x without its fraction
FloatInt(x) ==
    The({LET k == IF v.e >= 0 THEN ShiftLeft(v.m, v.e) ELSE ShiftRight(v.m, -v.e).q
         IN  IF v.neg THEN -Small(k) ELSE Small(k) :
         v \in {x}})

(***************************************************************************)
(* funnel_analysis.calculate_funnel_metrics                                *)
(*                                                                         *)
(* funnel_data["dimension_breakdowns"] is a dict of dicts; it is kept as   *)
(* the sequence of its [dimension, value, steps] items in iteration order. *)
(* steps holds the three event counts (a missing count reads as 0, as      *)
(* steps.get(name, 0) does).  A rounded rate, a baseline rate and a rounded *)
(* deviation are integer numbers of 0.0001.                                *)
(*                                                                         *)
(* A float the code computes is kept as the computation that made it: the  *)
(* exact quotient num / den, and whether it is a / b of two integers or    *)
(* (minuend - subtrahend) / den of three such decimals.  double gives the  *)
(* float itself.  It lies within 2^-50 of the exact quotient, relatively,  *)
(* so a comparison of two quotients that differ, which differ by far more, *)
(* is decided on the exact quotients and only one of two equal ones needs  *)
(* the floats.                                                             *)
(***************************************************************************)
\* the float  num / den  of two integers
Quotient(num, den) ==
    [raised |-> None, num |-> num, den |-> den,
     decimals |-> FALSE, minuend |-> num, subtrahend |-> 0]

\* the exception of a division by 0
ZeroDivisionError ==
    [raised |-> "ZeroDivisionError", num |-> 0, den |-> 1,
     decimals |-> FALSE, minuend |-> 0, subtrahend |-> 0]

\* Python's  a / b
truediv(a, b) == IF b = 0 THEN ZeroDivisionError ELSE Quotient(a, b)

\* the float of the decimal k / 10000
Decimal(k) == Ratio(k, 10000)

\* the float a quotient stands for
double(x) ==
    The({IF v.decimals
         THEN FloatDiv(FloatSub(Decimal(v.minuend), Decimal(v.subtrahend)), Decimal(v.den))
         ELSE Ratio(v.num, v.den) :
         v \in {x}})

\* round(x, 4), in units of 0.0001: the nearest one; when the exact quotient lies
\* halfway between two of them the float, which need not, decides
round4(x) ==
    The({LET n == 10000 * v.num
             q == n \div v.den
             r == n % v.den
         IN  IF 2 * r < v.den THEN q
             ELSE IF 2 * r > v.den THEN q + 1
             ELSE FloatRound4(double(v)) :
         v \in {x}})

\* a / b  with no test of b
step_rate_unguarded(a, b) == truediv(a, b)

\* (a / b) if b > 0 else 0
step_rate(a, b) == IF b > 0 THEN truediv(a, b) ELSE Quotient(0, 1)

\* the record calculate_funnel_metrics builds for one (dimension, value)
metrics_of(steps) ==
    LET view_item == steps.view_item
        add_to_cart == steps.add_to_cart
        purchase == steps.purchase
        view_to_cart == step_rate(add_to_cart, view_item)
        cart_to_purchase == step_rate(purchase, add_to_cart)
        overall == step_rate(purchase, view_item)
    IN  [raised |-> IF \E x \in {view_to_cart, cart_to_purchase, overall} : x.raised # None
                    THEN "ZeroDivisionError" ELSE None,
         view_to_cart_rate |-> round4(view_to_cart),
         cart_to_purchase_rate |-> round4(cart_to_purchase),
         overall_conversion_rate |-> round4(overall),
         absolute_numbers |-> [view_item |-> view_item, add_to_cart |-> add_to_cart,
                               purchase |-> purchase],
         view_to_cart_dropoff |-> view_item - add_to_cart,
         cart_to_purchase_dropoff |-> add_to_cart - purchase]

\* calculate_funnel_metrics(funnel_data): the results, one item per (dimension, value)
\* in iteration order, or the exception raised
calculate_funnel_metrics(data) ==
    LET breakdowns == data.dimension_breakdowns
        items == [i \in 1..Len(breakdowns) |->
                    [dimension |-> breakdowns[i].dimension,
                     value |-> breakdowns[i].value,
                     metrics |-> metrics_of(breakdowns[i].steps)]]
        failed == \E i \in 1..Len(items) : items[i].metrics.raised # None
    IN  [computed |-> TRUE,
         raised |-> IF failed THEN "ZeroDivisionError" ELSE None,
         results |-> IF failed THEN <<>> ELSE items]

\* no funnel data, no metrics computed
NoFunnelData == [dimension_breakdowns |-> <<>>, overall_baseline |-> NoDict]
NoMetrics == [computed |-> FALSE, raised |-> None, results |-> <<>>]

(***************************************************************************)
(* The analysis steps of the funnel endpoint                               *)
(*                                                                         *)
(* A baseline dict holds rates in units of 0.0001.  Deviations are exact   *)
(* quotients.  An outlier item keeps its dimension, value, rates, rounded  *)
(* overall deviation and performance tag.  An insight payload is named by  *)
(* the model that produced it.                                             *)
(***************************************************************************)
\* d.get(k, default) for a baseline dict
dict_get(d, k, default) ==
    IF \E i \in DOMAIN d.items : d.items[i][1] = k
    THEN d.items[CHOOSE i \in DOMAIN d.items : d.items[i][1] = k][2]
    ELSE default

\* bool(d): None and the empty dict are falsy
truthy(d) == d.given /\ Len(d.items) > 0

\* the sum of one step's counts over every value of every dimension
RECURSIVE total(_, _)
total(breakdowns, step) ==
    IF breakdowns = <<>> THEN 0
    ELSE Head(breakdowns).steps[step] + total(Tail(breakdowns), step)

\* calculate_baseline_from_data(funnel_data): the three baseline rates
calculate_baseline_from_data(data) ==
    LET total_view_item == total(data.dimension_breakdowns, "view_item")
        total_add_to_cart == total(data.dimension_breakdowns, "add_to_cart")
        total_purchase == total(data.dimension_breakdowns, "purchase")
    IN  Dict(<< <<"view_item_to_add_to_cart",
                  round4(step_rate(total_add_to_cart, total_view_item))>>,
                <<"add_to_cart_to_purchase",
                  round4(step_rate(total_purchase, total_add_to_cart))>>,
                <<"overall_conversion",
                  round4(step_rate(total_purchase, total_view_item))>> >>)

\* config.OUTLIER_THRESHOLD = 0.20
OUTLIER_THRESHOLD == Quotient(1, 5)

\* (rate - baseline) / divisor  of three decimals in units of 0.0001
relative_deviation(rate, baseline, divisor) ==
    IF divisor = 0 THEN ZeroDivisionError
    ELSE [raised |-> None, num |-> rate - baseline, den |-> divisor,
          decimals |-> TRUE, minuend |-> rate, subtrahend |-> baseline]

\* abs(x) compared with threshold * (s * 2^t), for t in -1..1: a negative, zero or
\* positive number as it is smaller, equal or greater
compare_abs(x, threshold, s, t) ==
    The({LET exact == Abs(v.num) * w.den * (IF t < 0 THEN 2 ELSE 1)
                          - s * (IF t > 0 THEN 2 ELSE 1) * w.num * v.den
         IN  IF exact # 0 THEN exact
             ELSE FloatCompareAbs(double(v), FloatScale(double(w), s, t)) :
         v \in {x}, w \in {threshold}})

\* abs(x) > threshold
exceeds(x, threshold) == compare_abs(x, threshold, 1, 0) > 0

\* calculate_severity(deviation, threshold)
calculate_severity(deviation, threshold) ==
    IF compare_abs(deviation, threshold, 1, 1) >= 0 THEN "critical"
    ELSE IF compare_abs(deviation, threshold, 3, -1) >= 0 THEN "high"
    ELSE IF compare_abs(deviation, threshold, 1, 0) >= 0 THEN "medium"
    ELSE "low"

\* the body of detect_funnel_outliers' loop for one (dimension, value): whether the
\* value is skipped, whether a division raises, whether it is an outlier, and the item
outlier_of(result, baseline_rates, threshold) ==
    LET metrics == result.metrics
        baseline_view_to_cart == dict_get(baseline_rates, "view_item_to_add_to_cart", 0)
        baseline_cart_to_purchase == dict_get(baseline_rates, "add_to_cart_to_purchase", 0)
        view_to_cart_deviation ==
            relative_deviation(metrics.view_to_cart_rate, baseline_view_to_cart,
                               baseline_view_to_cart)
        cart_to_purchase_deviation ==
            relative_deviation(metrics.cart_to_purchase_rate, baseline_cart_to_purchase,
                               baseline_cart_to_purchase)
        overall_deviation ==
            relative_deviation(metrics.overall_conversion_rate,
                               dict_get(baseline_rates, "overall_conversion", 0),
                               dict_get(baseline_rates, "overall_conversion", 10000))
        skipped == baseline_view_to_cart = 0 \/ baseline_cart_to_purchase = 0
        raised == ~skipped /\ overall_deviation.raised # None
    IN  [skipped |-> skipped,
         raised |-> raised,
         is_outlier |-> /\ ~skipped
                        /\ ~raised
                        /\ \/ exceeds(view_to_cart_deviation, threshold)
                           \/ exceeds(cart_to_purchase_deviation, threshold)
                           \/ exceeds(overall_deviation, threshold),
         item |-> IF skipped \/ raised THEN None
                  ELSE [dimension |-> result.dimension,
                        dimension_value |-> result.value,
                        view_to_cart_rate |-> metrics.view_to_cart_rate,
                        cart_to_purchase_rate |-> metrics.cart_to_purchase_rate,
                        overall_conversion_rate |-> metrics.overall_conversion_rate,
                        view_to_cart_deviation |-> round4(view_to_cart_deviation),
                        cart_to_purchase_deviation |-> round4(cart_to_purchase_deviation),
                        overall_deviation |-> round4(overall_deviation),
                        absolute_numbers |-> metrics.absolute_numbers,
                        performance |-> IF overall_deviation.num > 0 THEN "above"
                                        ELSE "below",
                        severity |-> calculate_severity(overall_deviation, threshold)]]

\* the place of item i if every dimension's list were sorted by ascending absolute
\* overall deviation
OutlierPlace_ascending(items, i) ==
    LET first(j) == CHOOSE m \in DOMAIN items :
                        /\ items[m].dimension = items[j].dimension
                        /\ \A n \in 1..(m - 1) : items[n].dimension # items[j].dimension
        dev(j) == Abs(items[j].overall_deviation)
    IN  1 + Cardinality({j \in DOMAIN items :
                            \/ first(j) < first(i)
                            \/ /\ first(j) = first(i)
                               /\ \/ dev(j) < dev(i)
                                  \/ dev(j) = dev(i) /\ j < i})

\* the place of item i once every dimension's list is sorted by descending absolute
\* overall deviation (a stable sort; the dimensions keep their order)
OutlierPlace(items, i) ==
    LET first(j) == CHOOSE m \in DOMAIN items :
                        /\ items[m].dimension = items[j].dimension
                        /\ \A n \in 1..(m - 1) : items[n].dimension # items[j].dimension
        dev(j) == Abs(items[j].overall_deviation)
    IN  1 + Cardinality({j \in DOMAIN items :
                            \/ first(j) < first(i)
                            \/ /\ first(j) = first(i)
                               /\ \/ dev(j) > dev(i)
                                  \/ dev(j) = dev(i) /\ j < i})

\* the items with every dimension's list sorted (dimension_outliers.sort(...))
sorted_by_deviation(items) ==
    The({[r \in 1..Len(v) |-> v[CHOOSE i \in DOMAIN v : OutlierPlace(v, i) = r]] :
         v \in {items}})

\* detect_funnel_outliers(funnel_metrics, baseline_rates, threshold): the outlier
\* items, dimension by dimension, or the exception raised
detect_funnel_outliers(results, baseline_rates, threshold) ==
    The({IF \E i \in 1..Len(outcome) : outcome[i].raised
         THEN [raised |-> "ZeroDivisionError", outliers |-> <<>>]
         ELSE [raised |-> None,
               outliers |-> sorted_by_deviation(
                                The({[i \in 1..Len(found) |-> found[i].item] :
                                     found \in {SelectSeq(outcome,
                                                         LAMBDA o : o.is_outlier)}}))] :
         outcome \in {[i \in 1..Len(results) |->
                          outlier_of(results[i], baseline_rates, threshold)]}})

\* generate_mock_streamlined_insights(outliers, ...): with no outlier at all
\* best_outlier stays None and best_outlier['overall_conversion_rate'] raises
generate_mock_streamlined_insights(outliers) ==
    IF Len(outliers) = 0 THEN [raised |-> "TypeError", insights |-> None]
    ELSE [raised |-> None, insights |-> "mock-streamlined"]

\* how a request finds the AI: switched off (DISABLE_AI=true), no usable API key,
\* the API answering, the API failing
AiModes == {"disabled", "no_key", "api_ok", "api_error"}

\* generate_streamlined_insights(outliers, ...)
generate_streamlined_insights(outliers, ai) ==
    IF ai = "no_key" THEN generate_mock_streamlined_insights(outliers)
    ELSE IF ai = "api_ok" THEN [raised |-> None, insights |-> "claude"]
    ELSE generate_mock_streamlined_insights(outliers)

\* what one request did: the fingerprint, what the cache returned, the calls of the
\* generator and of save_insights with their payloads, the HTTP status, the time, and
\* the baseline the request carried, the provider's data and the baseline_rates used
Served(turn, key, cached, gen_calls, generated, save_calls, saved, status, at, override, data, baseline_rates) ==
    [turn |-> turn, cache_key |-> key, cached_insights |-> cached,
     generator_calls |-> gen_calls, generated |-> generated,
     save_calls |-> save_calls, saved |-> saved, status |-> status, at |-> at,
     baseline_rates_override |-> override, funnel_data |-> data,
     baseline_rates |-> baseline_rates]

\* no outlier detection run yet
NoOutliers == [computed |-> FALSE, raised |-> None, outliers |-> <<>>]

(***************************************************************************)
(* CacheManager.prepare_for_n8n_storage                                    *)
(*                                                                         *)
(* A dict is a record of the keys it holds, a list a sequence, and a text  *)
(* the sequence of its characters.                                         *)
(***************************************************************************)
\* the "[:5]" of the three lists
ListLimit == 5
\* the "[:200]" of an issue and of an opportunity, the "[:150]" of an action and the
\* "[:100]" of an expected impact
IssueBudget == 200
OpportunityBudget == 200
ActionBudget == 150
ImpactBudget == 100

\* d.get(k, default)
get(d, k, default) == IF k \in DOMAIN d THEN d[k] ELSE default

\* s with no limit applied
slice_whole(s, n) == s

\* s[:n]
slice(s, n) == SubSeq(s, 1, IF Len(s) < n THEN Len(s) ELSE n)

\* prepare_for_n8n_storage(insights): the optimized dict
prepare_for_n8n_storage(insights) ==
    [model |-> get(insights, "model", None),
     critical_issues |->
         LET kept == slice(get(insights, "critical_issues", <<>>), ListLimit)
         IN  [n \in 1..Len(kept) |->
                 [dimension |-> get(kept[n], "dimension", None),
                  value |-> get(kept[n], "value", None),
                  issue |-> slice(get(kept[n], "issue", <<>>), IssueBudget),
                  impact |-> get(kept[n], "impact", None)]],
     opportunities |->
         LET kept == slice(get(insights, "opportunities", <<>>), ListLimit)
         IN  [n \in 1..Len(kept) |->
                 [dimension |-> get(kept[n], "dimension", None),
                  value |-> get(kept[n], "value", None),
                  opportunity |-> slice(get(kept[n], "opportunity", <<>>), OpportunityBudget),
                  potential_lift |-> get(kept[n], "potential_lift", None)]],
     recommendations |->
         LET kept == slice(get(insights, "recommendations", <<>>), ListLimit)
         IN  [n \in 1..Len(kept) |->
                 [priority |-> get(kept[n], "priority", None),
                  action |-> slice(get(kept[n], "action", <<>>), ActionBudget),
                  impact |-> slice(get(kept[n], "expected_impact", <<>>), ImpactBudget),
                  implementation |-> get(kept[n], "implementation", None)]]]

(***************************************************************************)
(* BatchProcessor (src/cache_manager.py)                                   *)
(*                                                                         *)
(* A historical record is a dict with a 'date' or a 'timestamp', an ISO    *)
(* text, and its 'data', a text.  The ISO text of a day is kept as <<day>> *)
(* and that of an hour of a day as <<day, hour>>; the data, which may be   *)
(* megabytes long, is kept as the number of its characters.  Times are in  *)
(* hours.                                                                  *)
(***************************************************************************)
\* BatchProcessor(max_batch_size, max_storage_mb)
BatchProcessor(max_batch_size, max_storage_mb) ==
    [max_batch_size |-> max_batch_size, max_storage_bytes |-> max_storage_mb * 1024 * 1024]

Min(a, b) == IF a <= b THEN a ELSE b

\* how many characters an ISO text has
iso_len(text) == IF Len(text) = 1 THEN Len("2024-01-01") ELSE Len("2024-01-01T12:00:00")

\* how many characters the value under key k has
value_len(record, k) == IF k = "data" THEN record[k] ELSE iso_len(record[k])

\* how many characters the items of the keys ks take in json.dumps(record):
\* "key": "value"  and the ", " after it
RECURSIVE items_len(_, _)
items_len(record, ks) ==
    IF ks = {} THEN 0
    ELSE The({Len(k) + Len("\"\": \"\"") + value_len(record, k) + Len(", ")
              + items_len(record, ks \ {k}) : k \in {CHOOSE k \in ks : TRUE}})

\* len(data), with the text around it left out
json_len_bare(record) == record.data

\* record_size = len(json.dumps(sample_record))
json_len(record) ==
    IF DOMAIN record = {} THEN Len("{}")
    ELSE Len("{}") + items_len(record, DOMAIN record) - Len(", ")

\* what a call returns, or the exception it raises
Returned(value, record_size, max_records, batch_size) ==
    [raised |-> None, returned |-> value, record_size |-> record_size,
     max_records |-> max_records, batch_size |-> batch_size]

Raised(exception, record_size, max_records, batch_size) ==
    [raised |-> exception, returned |-> None, record_size |-> record_size,
     max_records |-> max_records, batch_size |-> batch_size]

\* the batch size with no rotation window: max_records itself when the records do
\* not fit
batch_size_for_unrotated(self, record_size, total_records) ==
    LET max_records == (4 * self.max_storage_bytes) \div (5 * record_size)
        batch_size == IF total_records <= max_records
                      THEN Min(total_records, self.max_batch_size)
                      ELSE Min(max_records, self.max_batch_size)
    IN  Returned(batch_size, record_size, max_records, batch_size)

\* the batch size with no regard to the storage budget
batch_size_for_unlimited(self, record_size, total_records) ==
    LET max_records == (4 * self.max_storage_bytes) \div (5 * record_size)
        batch_size == Min(total_records, self.max_batch_size)
    IN  Returned(batch_size, record_size, max_records, batch_size)

\* calculate_optimal_batch_size from the record size on: max_records and the batch
\* size
batch_size_for(self, record_size, total_records) ==
    IF record_size = 0 THEN Raised("ZeroDivisionError", record_size, 0, 0)
    ELSE The({LET batch_size == IF total_records <= max_records
                                THEN Min(total_records, self.max_batch_size)
                                ELSE Min(max_records \div 30, self.max_batch_size)
              IN  Returned(batch_size, record_size, max_records, batch_size) :
              max_records \in {FloatInt(FloatMul(FloatDiv(Float(self.max_storage_bytes),
                                                         Float(record_size)),
                                                Ratio(8, 10)))}})

\* calculate_optimal_batch_size(sample_record, total_records)
calculate_optimal_batch_size(self, sample_record, total_records) ==
    batch_size_for(self, json_len(sample_record), total_records)

\* [data[i:i + batch_size] for i in range(0, len(data), batch_size)], batch_size > 0
Batches(data, batch_size) ==
    [n \in 1..((Len(data) + batch_size - 1) \div batch_size) |->
        SubSeq(data, (n - 1) * batch_size + 1, Min(n * batch_size, Len(data)))]

\* batch_historical_data(data, batch_size); the batch size is <<n>>, or <<>> for None
batch_historical_data(self, data, batch_size) ==
    IF data = <<>> THEN Returned(<<>>, 0, 0, 0)
    ELSE The({IF size.raised # None THEN size
              ELSE IF size.batch_size = 0
              THEN Raised("ValueError", size.record_size, size.max_records, 0)
              ELSE IF size.batch_size < 0
              THEN Returned(<<>>, size.record_size, size.max_records, size.batch_size)
              ELSE Returned(Batches(data, size.batch_size), size.record_size,
                            size.max_records, size.batch_size) :
              size \in {IF batch_size = <<>>
                        THEN calculate_optimal_batch_size(self, data[1], Len(data))
                        ELSE Returned(batch_size[1], 0, 0, batch_size[1])}})

\* datetime.fromisoformat(text), in hours; '' is no ISO text
fromisoformat(text) ==
    IF text = <<>> THEN -1
    ELSE text[1] * 24 + (IF Len(text) > 1 THEN text[2] ELSE 0)

\* record_date > cutoff_date
is_recent_strict(record_date, cutoff_date) == record_date > cutoff_date

\* record_date >= cutoff_date
is_recent(record_date, cutoff_date) == record_date >= cutoff_date

\* record.get('date', record.get('timestamp', ''))
date_of(record) == get(record, "date", get(record, "timestamp", <<>>))

\* summarize_historical_data(data, keep_last_n_days) called at the time t
summarize_historical_data(data, keep_last_n_days, t) ==
    IF \E n \in 1..Len(data) : date_of(data[n]) = <<>>
    THEN Raised("ValueError", 0, 0, 0)
    ELSE Returned(SelectSeq(data, LAMBDA record :
                      is_recent(fromisoformat(date_of(record)), t - keep_last_n_days * 24)),
                  0, 0, 0)

\* no call made on the BatchProcessor yet
NoBatch == [op |-> "init", given |-> <<>>, raised |-> None, returned |-> None,
            record_size |-> 0, max_records |-> 0, batch_size |-> 0]

(***************************************************************************)
(* RedisCacheManager and MockRedisClient (src/redis_cache.py)              *)
(*                                                                         *)
(* The clock counts hours.  The data of a client is the function from its  *)
(* keys to what is stored under each: the text and, in Redis, the time the *)
(* key expires.  An optional argument is <<>> for None and <<v>> otherwise, *)
(* and so is an optional result.                                           *)
(***************************************************************************)
\* _get_cache_key(property_id, report_type, date): the date is today's if None
get_cache_key(property_id, report_type, date, t) ==
    <<"ga4", property_id, report_type, IF date = <<>> THEN t \div 24 ELSE date[1]>>

\* json.dumps(value) and json.loads(text)
json_dumps(value) == [json |-> value]
json_loads(text) == text.json

\* MockRedisClient.setex(key, time, value) and Redis.setex at the time t
mock_setex(data, key, time, value) == (key :> [value |-> value]) @@ data
redis_setex(data, key, time, value, t) ==
    (key :> [value |-> value, expires |-> t + time]) @@ data

\* MockRedisClient.get(key) and Redis.get at the time t: <<>> for None
mock_get(data, key) == IF key \in DOMAIN data THEN <<data[key].value>> ELSE <<>>
redis_get(data, key, t) ==
    IF key \in DOMAIN data /\ t < data[key].expires THEN <<data[key].value>> ELSE <<>>

\* the client's get and setex
client_get(client, key, t) ==
    IF client.mock THEN mock_get(client.data, key) ELSE redis_get(client.data, key, t)

client_setex(client, key, time, value, t) ==
    [client EXCEPT !.data = IF client.mock THEN mock_setex(client.data, key, time, value)
                            ELSE redis_setex(client.data, key, time, value, t)]

\* get_cached_data(property_id, report_type, date) at the time t; the client may
\* raise, which is caught
get_cached_data(client, key, raises, t) ==
    IF raises THEN <<>>
    ELSE The({IF cached_data # <<>> THEN <<json_loads(cached_data[1])>> ELSE <<>> :
              cached_data \in {client_get(client, key, t)}})

\* no call made on the RedisCacheManager yet
NoFetch == [op |-> "init", key |-> <<>>, at |-> 0, returned |-> <<>>]

\* no insights handed to prepare_for_n8n_storage yet
NoPayload ==
    [model |-> None, critical_issues |-> <<>>, opportunities |-> <<>>,
     recommendations |-> <<>>]

\* no request served yet
NoRequest == Served(0, NoKey, None, 0, None, 0, None, 0, 0, NoDict, NoFunnelData, NoDict)

(***************************************************************************)
(* The variables of the parts a specification does not exercise            *)
(***************************************************************************)
\* the fingerprint variables of a specification that fingerprints nothing
KeysUnused ==
    /\ dataA = NoData
    /\ dataB = NoData
    /\ cache_keyA = NoKey
    /\ cache_keyB = NoKey

\* a CacheManager no call is made on
CacheUnused ==
    /\ max_cache_size = 1
    /\ cache = <<>>
    /\ now = 0
    /\ lastCall = [op |-> "init", key |-> 0, insights |-> None, result |-> None, evicted |-> {}]
    /\ calls = 0

\* no metrics asked for
MetricsUnused ==
    /\ funnel_data = NoFunnelData
    /\ funnel_metrics = NoMetrics

\* no request to the funnel endpoint
EndpointUnused == lastRequest = NoRequest

\* no concurrent handlers
HandlersUnused ==
    /\ pc = <<>>
    /\ local = <<>>
    /\ started = 0
    /\ lastGenerated = <<>>

\* no outlier detection asked for
DetectUnused ==
    /\ baseline_given = NoDict
    /\ threshold_given = OUTLIER_THRESHOLD
    /\ outliers_found = NoOutliers

\* no severity asked for
SeverityUnused ==
    /\ deviation_given = Quotient(0, 1)
    /\ severity_found = None

\* no payload prepared for storage
StorageUnused ==
    /\ payload = NoPayload
    /\ previous = NoPayload
    /\ applications = 0

\* none of the three
AnalysisUnused == DetectUnused /\ SeverityUnused /\ StorageUnused

\* a BatchProcessor no call is made on
BatchUnused ==
    /\ processor = BatchProcessor(100, 50)
    /\ historical_data = <<>>
    /\ batched = NoBatch

\* no handler inside generate_funnel_insights
LimiterUnused ==
    /\ last_api_call = 0
    /\ limited = <<>>
    /\ api_calls = <<>>

\* a RedisCacheManager no call is made on
RedisUnused ==
    /\ redis_client = [mock |-> TRUE, data |-> <<>>]
    /\ fetched = NoFetch

(***************************************************************************)
(* BackgroundSyncService (src/background_sync.py)                          *)
(*                                                                         *)
(* The clock counts half minutes.  jobs is the job list of the schedule    *)
(* module, sync_threads the threads start_scheduler has started, the last  *)
(* of them self.sync_thread, and caller the program that calls             *)
(* start_scheduler and stop_scheduler one after the other.  A thread also  *)
(* remembers whether stop_scheduler was called since it started, and what  *)
(* it did afterwards; the caller remembers what its last call found.       *)
(***************************************************************************)
\* time.sleep(60), in half minutes
sleep_time == 2

\* the caller between two calls, after the call op
Idle(op, was_running, jobs_before, threads_before) ==
    [at |-> "idle", op |-> op, was_running |-> was_running,
     jobs_before |-> jobs_before, threads_before |-> threads_before]

\* threading.Thread(target=self._run_scheduler): a thread about to test the loop
Thread == [at |-> "test", until |-> 0, stopped |-> FALSE, resumed |-> FALSE, synced |-> FALSE]

\* schedule.every(interval_minutes).minutes.do(...) at the time t
Job(interval_minutes, t) ==
    [interval |-> 2 * interval_minutes, next_run |-> t + 2 * interval_minutes]

\* job.should_run at the time t
should_run(job, t) == t >= job.next_run

\* schedule.run_pending() at the time t: the jobs that are due run and are
\* scheduled again
run_pending(scheduled, t) ==
    [j \in DOMAIN scheduled |->
        IF should_run(scheduled[j], t)
        THEN [scheduled[j] EXCEPT !.next_run = t + scheduled[j].interval]
        ELSE scheduled[j]]

\* a BackgroundSyncService no call is made on
SchedulerUnused ==
    /\ running = FALSE
    /\ jobs = <<>>
    /\ sync_threads = <<>>
    /\ caller = Idle("init", FALSE, 0, 0)

\* none of the services
ServicesUnused ==
    /\ clock = 0
    /\ BatchUnused
    /\ LimiterUnused
    /\ RedisUnused
    /\ SchedulerUnused

(***************************************************************************)
(* generate_cache_key applied to two request shapes                        *)
(***************************************************************************)
\* the call  cache_keyA = generate_cache_key(dataA)
generate_cache_keyA ==
    /\ cache_keyA = NoKey
    /\ cache_keyA' = cache_key_of(dataA)
    /\ UNCHANGED <<dataA, dataB, cache_keyB>>
    /\ UNCHANGED exceptKeys

\* the call  cache_keyB = generate_cache_key(dataB)
generate_cache_keyB ==
    /\ cache_keyB = NoKey
    /\ cache_keyB' = cache_key_of(dataB)
    /\ UNCHANGED <<dataA, dataB, cache_keyA>>
    /\ UNCHANGED exceptKeys

\* lists of at most n dimension names
RECURSIVE ListsUpTo(_, _)
ListsUpTo(S, n) ==
    IF n = 0 THEN {<<>>}
    ELSE LET shorter == ListsUpTo(S, n - 1)
         IN  shorter \cup {Append(l, x) : l \in shorter, x \in S}

\* baseline dicts (rates in units of 0.0001): None, the empty dict, one item, two
\* items in either order
BaselineDicts ==
    {NoDict, Dict(<<>>)}
    \cup {Dict(<< <<k, v>> >>) :
              k \in {"overall_conversion", "view_item_to_add_to_cart"}, v \in {1200, 1500}}
    \cup {Dict(<< <<"view_item_to_add_to_cart", 1500>>, <<"overall_conversion", v>> >>) :
              v \in {0, 1200}}
    \cup {Dict(<< <<"overall_conversion", v>>, <<"view_item_to_add_to_cart", 1500>> >>) :
              v \in {0, 1200}}

\* the request shapes fingerprinted
RequestShapes ==
    [dimensions : ListsUpTo({DimensionNames[i] : i \in DOMAIN DimensionNames}, MaxDimensions),
     property_id : {"properties/1", "properties/2"},
     date_range : {"last_30_days"},
     baseline_rates : BaselineDicts]

InitKey ==
    /\ dataA \in RequestShapes
    /\ dataB \in RequestShapes
    /\ cache_keyA = NoKey
    /\ cache_keyB = NoKey
    /\ CacheUnused
    /\ MetricsUnused
    /\ EndpointUnused
    /\ HandlersUnused
    /\ AnalysisUnused
    /\ ServicesUnused

NextKey ==
    \/ generate_cache_keyA
    \/ generate_cache_keyB

\* generate_cache_key applied to two request shapes
SpecKey == InitKey /\ [][NextKey]_vars

(***************************************************************************)
(* calculate_funnel_metrics applied to funnel data                         *)
(***************************************************************************)
\* the (dimension, value) pairs of the funnel data, in iteration order
BreakdownPairs ==
    << <<"deviceCategory", "mobile">>, <<"deviceCategory", "tablet">>, <<"browser", "Chrome">> >>

\* the event counts of one (dimension, value)
StepCounts == [view_item : 0..MaxCount, add_to_cart : 0..MaxCount, purchase : 0..MaxCount]

\* the items of the pairs numbered in P, in iteration order, with the counts of steps
RECURSIVE Breakdowns(_, _, _)
Breakdowns(P, steps, n) ==
    IF n = 0 THEN <<>>
    ELSE Breakdowns(P, steps, n - 1)
         \o (IF n \in P
             THEN <<[dimension |-> BreakdownPairs[n][1], value |-> BreakdownPairs[n][2],
                     steps |-> steps[n]]>>
             ELSE <<>>)

\* funnel data over the pairs numbered in P, with the counts of steps
FunnelDataOf(P, steps) ==
    [dimension_breakdowns |-> Breakdowns(P, steps, Len(BreakdownPairs)),
     overall_baseline |-> NoDict]

\* the call  funnel_metrics = calculate_funnel_metrics(funnel_data)
calculate_funnel_metrics_call ==
    /\ ~funnel_metrics.computed
    /\ funnel_metrics' = calculate_funnel_metrics(funnel_data)
    /\ UNCHANGED funnel_data
    /\ UNCHANGED exceptMetrics

InitMetrics ==
    /\ \E P \in SUBSET DOMAIN BreakdownPairs :
           \E steps \in [P -> StepCounts] : funnel_data = FunnelDataOf(P, steps)
    /\ funnel_metrics = NoMetrics
    /\ CacheUnused
    /\ KeysUnused
    /\ EndpointUnused
    /\ HandlersUnused
    /\ AnalysisUnused
    /\ ServicesUnused

NextMetrics == calculate_funnel_metrics_call

SpecMetrics == InitMetrics /\ [][NextMetrics]_vars

(***************************************************************************)
(* CacheManager: the cache operations                                      *)
(***************************************************************************)
\* a call: on a warmed-up cache only MaxCalls calls are explored
Counted ==
    /\ max_cache_size > MaxCapacity => calls < MaxCalls
    /\ calls' = IF max_cache_size > MaxCapacity THEN calls + 1 ELSE calls
    /\ UNCHANGED <<max_cache_size, now>>
    /\ UNCHANGED exceptCache

\* CacheManager.get_cached_insights(cache_key)
get_cached_insights(k) ==
    /\ cache' = Got(cache, k, now).cache
    /\ lastCall' = Record("get", k, None, Got(cache, k, now).result, Got(cache, k, now).evicted)
    /\ Counted

\* CacheManager.save_insights(cache_key, insights)
save_insights(k, p) ==
    /\ cache' = Saved(cache, max_cache_size, k, p, now).cache
    /\ lastCall' = Record("save", k, p, Saved(cache, max_cache_size, k, p, now).result,
                          Saved(cache, max_cache_size, k, p, now).evicted)
    /\ Counted

\* CacheManager.clear_cache()
clear_cache ==
    /\ cache' = <<>>
    /\ lastCall' = Record("clear", 0, None, None, {})
    /\ Counted

\* time passes between two calls
Tick ==
    /\ now < MaxTime
    /\ now' = now + 1
    /\ lastCall' = Record("tick", 0, None, None, {})
    /\ UNCHANGED <<max_cache_size, cache, calls>>
    /\ UNCHANGED exceptCache

\* the dict after the save_insights calls of a script, each [key, insights, at]
RECURSIVE Replay(_, _, _)
Replay(c, cap, script) ==
    IF script = <<>> THEN c
    ELSE Replay(SavedCache(c, cap, Head(script).key, Head(script).insights, Head(script).at),
                cap, Tail(script))

\* a warm-up: keys 1..n-1 saved in turn at time 0, those with late[k] saved again at
\* time 1, then key n saved at time 1.  The cache is below capacity until the last save.
RECURSIVE Saves(_, _, _)
Saves(ks, n, t) ==
    IF n = 0 THEN <<>>
    ELSE Saves(ks, n - 1, t)
         \o (IF n \in ks THEN <<[key |-> n, insights |-> "p1", at |-> t]>> ELSE <<>>)

WarmUp(n, late) ==
    Saves(1..(n - 1), n - 1, 0) \o Saves({k \in 1..(n - 1) : late[k]}, n - 1, 1)
        \o <<[key |-> n, insights |-> "p1", at |-> 1]>>

\* cache_manager = CacheManager(max_cache_size): an empty cache of a small capacity
InitEmpty ==
    /\ max_cache_size \in 1..MaxCapacity
    /\ cache = <<>>
    /\ now = 0

\* CacheManager(WarmCapacity) after a warm-up that fills it
InitWarm ==
    /\ max_cache_size = WarmCapacity
    /\ \E late \in [1..(WarmCapacity - 1) -> BOOLEAN] :
           cache = Replay(<<>>, WarmCapacity, WarmUp(WarmCapacity, late))
    /\ now = 1

Init ==
    /\ InitEmpty \/ InitWarm
    /\ lastCall = Record("init", 0, None, None, {})
    /\ calls = 0
    /\ KeysUnused
    /\ MetricsUnused
    /\ EndpointUnused
    /\ HandlersUnused
    /\ AnalysisUnused
    /\ ServicesUnused

Next ==
    \/ \E k \in Keys : get_cached_insights(k)
    \/ \E k \in Keys, p \in Payloads : save_insights(k, p)
    \/ clear_cache
    \/ Tick

Spec == Init /\ [][Next]_vars

\* A fault of the environment: the stored 'timestamp' string of one entry is damaged
\* and no longer parses (one fault at a time).  No operation of the class does this.
CorruptTimestamp ==
    /\ ~Unparseable(cache)
    /\ \E i \in DOMAIN cache :
          /\ cache' = [cache EXCEPT ![i].valid = FALSE]
          /\ lastCall' = Record("corrupt", cache[i].key, None, None, {})
    /\ UNCHANGED <<max_cache_size, now, calls>>
    /\ UNCHANGED exceptCache

NextCorrupt ==
    \/ Next
    \/ CorruptTimestamp

\* the CacheManager in an environment that can damage stored timestamps
SpecCorrupt == Init /\ [][NextCorrupt]_vars

(***************************************************************************)
(* funnel_analysis.detect_funnel_outliers on the metrics of funnel data    *)
(***************************************************************************)
\* the segments the funnel data is made of, dimension by dimension: values at, above
\* and below the baseline 0.2 / 0.25 / 0.05, two of them exactly 20% away from it, one
\* away in its cart rate only, and the channel Social of the worked scenario
Segments ==
    LET seg(dimension, value, view_item, add_to_cart, purchase) ==
            [dimension |-> dimension, value |-> value,
             steps |-> [view_item |-> view_item, add_to_cart |-> add_to_cart,
                        purchase |-> purchase]]
    IN  << seg("deviceCategory", "mobile", 100, 16, 4),
           seg("deviceCategory", "tablet", 100, 24, 6),
           seg("deviceCategory", "desktop", 100, 20, 5),
           seg("deviceCategory", "smart tv", 100, 30, 10),
           seg("browser", "Safari", 100, 10, 1),
           seg("browser", "Chrome", 100, 26, 5),
           seg("browser", "Edge", 100, 0, 0),
           seg("channel", "Social", 800, 65, 5) >>

\* the segments numbered in P, in iteration order
RECURSIVE SegmentsIn(_, _)
SegmentsIn(P, n) ==
    IF n = 0 THEN <<>>
    ELSE SegmentsIn(P, n - 1) \o (IF n \in P THEN <<Segments[n]>> ELSE <<>>)

\* the rates a baseline is made of: the same ones, and those of the worked scenario
BaselineProfiles ==
    { [view_item_to_add_to_cart |-> 2000, add_to_cart_to_purchase |-> 2500,
       overall_conversion |-> 500],
      [view_item_to_add_to_cart |-> 1520, add_to_cart_to_purchase |-> 870,
       overall_conversion |-> 132] }

\* how a baseline holds one of its rates: not at all, as 0, or as the rate
RateForms == {"absent", "zero", "positive"}

\* the baseline_rates dict with the rates of profile in the forms of form
BaselineOf(profile, form) ==
    LET item(k) == IF form[k] = "absent" THEN <<>>
                   ELSE << <<k, IF form[k] = "zero" THEN 0 ELSE profile[k]>> >>
    IN  Dict(item("view_item_to_add_to_cart") \o item("add_to_cart_to_purchase")
                 \o item("overall_conversion"))

\* the thresholds: config.OUTLIER_THRESHOLD and half of it
Thresholds == {OUTLIER_THRESHOLD, Quotient(1, 10)}

\* the call  outliers = detect_funnel_outliers(funnel_metrics, baseline_rates, threshold)
\* on the metrics calculate_funnel_metrics returned
detect_funnel_outliers_call ==
    /\ funnel_metrics.computed
    /\ funnel_metrics.raised = None
    /\ ~outliers_found.computed
    /\ outliers_found' =
           LET detected == detect_funnel_outliers(funnel_metrics.results, baseline_given,
                                                  threshold_given)
           IN  [computed |-> TRUE, raised |-> detected.raised, outliers |-> detected.outliers]
    /\ UNCHANGED <<baseline_given, threshold_given>>
    /\ UNCHANGED exceptDetect

InitOutliers ==
    /\ \E P \in SUBSET DOMAIN Segments :
           /\ Cardinality(P) <= MaxSegments
           /\ funnel_data = [dimension_breakdowns |-> SegmentsIn(P, Len(Segments)),
                             overall_baseline |-> NoDict]
    /\ funnel_metrics = NoMetrics
    /\ \E profile \in BaselineProfiles :
           \E form \in [DOMAIN profile -> RateForms] :
               baseline_given = BaselineOf(profile, form)
    /\ threshold_given \in Thresholds
    /\ outliers_found = NoOutliers
    /\ CacheUnused
    /\ KeysUnused
    /\ EndpointUnused
    /\ HandlersUnused
    /\ SeverityUnused
    /\ StorageUnused
    /\ ServicesUnused

NextOutliers ==
    \/ calculate_funnel_metrics_call
    \/ detect_funnel_outliers_call

SpecOutliers == InitOutliers /\ [][NextOutliers]_vars

(***************************************************************************)
(* funnel_analysis.calculate_severity on deviations and thresholds         *)
(***************************************************************************)
\* the deviations: the decimals with two places from -MaxDeviation to MaxDeviation
\* hundredths
Deviations == {Quotient(n, 100) : n \in (-MaxDeviation)..MaxDeviation}

\* the thresholds: 0.1, config.OUTLIER_THRESHOLD = 0.2 and 0.3
SeverityThresholds == {Quotient(1, 10), OUTLIER_THRESHOLD, Quotient(3, 10)}

\* the call  calculate_severity(deviation, threshold)
calculate_severity_call ==
    /\ severity_found = None
    /\ severity_found' = calculate_severity(deviation_given, threshold_given)
    /\ UNCHANGED deviation_given
    /\ UNCHANGED exceptSeverity

InitSeverity ==
    /\ deviation_given \in Deviations
    /\ threshold_given \in SeverityThresholds
    /\ severity_found = None
    /\ baseline_given = NoDict
    /\ outliers_found = NoOutliers
    /\ CacheUnused
    /\ KeysUnused
    /\ MetricsUnused
    /\ EndpointUnused
    /\ HandlersUnused
    /\ StorageUnused
    /\ ServicesUnused

NextSeverity == calculate_severity_call

SpecSeverity == InitSeverity /\ [][NextSeverity]_vars

(***************************************************************************)
(* CacheManager.prepare_for_n8n_storage applied to insights, and again to  *)
(* what it returned                                                        *)
(***************************************************************************)
\* a text of n characters
Text(n) == [c \in 1..n |-> IF c % 2 = 1 THEN "a" ELSE "b"]

\* how long the texts of the insights are: the key missing, a few characters, as many
\* as the budget of the text allows, and more than that
TextForms == {"absent", "short", "full", "long"}

\* the dict `fields` and, unless the form is "absent", the text under key k
WithText(fields, k, form, budget) ==
    IF form = "absent" THEN fields
    ELSE fields @@ (k :> Text(IF form = "short" THEN 3
                              ELSE IF form = "full" THEN budget
                              ELSE budget + MaxOver))

\* the insights of an AI answer: so many critical issues, opportunities and
\* recommendations, their texts in the given form
InsightsOf(issues, opportunities, recommendations, form) ==
    [model |-> "claude-sonnet",
     summary |-> Text(3),
     critical_issues |->
         [n \in 1..issues |->
             WithText([dimension |-> "deviceCategory", value |-> n, impact |-> "high"],
                      "issue", form, IssueBudget)],
     opportunities |->
         [n \in 1..opportunities |->
             WithText([dimension |-> "browser", value |-> n, potential_lift |-> "20%"],
                      "opportunity", form, OpportunityBudget)],
     recommendations |->
         [n \in 1..recommendations |->
             WithText(WithText([priority |-> n, implementation |-> "Quick"],
                               "action", form, ActionBudget),
                      "expected_impact", form, ImpactBudget)]]

\* the call  prepare_for_n8n_storage(payload), on the insights or on what the call
\* before returned
prepare_for_n8n_storage_call ==
    /\ applications < MaxApplications
    /\ previous' = payload
    /\ payload' = prepare_for_n8n_storage(payload)
    /\ applications' = applications + 1
    /\ UNCHANGED exceptStorage

InitStorage ==
    /\ \E issues, opportunities, recommendations \in 0..MaxItems, form \in TextForms :
           payload = InsightsOf(issues, opportunities, recommendations, form)
    /\ previous = NoPayload
    /\ applications = 0
    /\ CacheUnused
    /\ KeysUnused
    /\ MetricsUnused
    /\ EndpointUnused
    /\ HandlersUnused
    /\ DetectUnused
    /\ SeverityUnused
    /\ ServicesUnused

NextStorage == prepare_for_n8n_storage_call

SpecStorage == InitStorage /\ [][NextStorage]_vars

(***************************************************************************)
(* CacheManager: the cache operations together with the calls that only    *)
(* read, get_cache_stats, generate_cache_key and prepare_for_n8n_storage   *)
(***************************************************************************)
\* CacheManager.get_cache_stats()
get_cache_stats_call ==
    /\ lastCall' = [stats |-> get_cache_stats(cache, max_cache_size)]
                       @@ Record("stats", 0, None, None, {})
    /\ UNCHANGED cache
    /\ Counted

\* the request shape handed to generate_cache_key
FrameShape ==
    [dimensions |-> <<DimensionNames[1]>>, property_id |-> "properties/1",
     date_range |-> "last_30_days", baseline_rates |-> NoDict]

InitFrame ==
    /\ InitEmpty
    /\ lastCall = Record("init", 0, None, None, {})
    /\ calls = 0
    /\ dataA = FrameShape
    /\ dataB = NoData
    /\ cache_keyA = NoKey
    /\ cache_keyB = NoKey
    /\ payload = InsightsOf(1, 1, 1, "long")
    /\ previous = NoPayload
    /\ applications = 0
    /\ MetricsUnused
    /\ EndpointUnused
    /\ HandlersUnused
    /\ DetectUnused
    /\ SeverityUnused
    /\ ServicesUnused

NextFrame ==
    \/ \E k \in Keys : get_cached_insights(k)
    \/ \E k \in Keys : save_insights(k, "p1")
    \/ clear_cache
    \/ Tick
    \/ get_cache_stats_call
    \/ generate_cache_keyA
    \/ prepare_for_n8n_storage_call

SpecFrame == InitFrame /\ [][NextFrame]_vars

(***************************************************************************)
(* BatchProcessor: batch sizing, batching and retention of historical      *)
(* records                                                                 *)
(***************************************************************************)
\* the records: of today and of yesterday noon, a very long one, one with both keys
\* that is weeks old by its date, and one of the day the default retention ends
HistoricalRecords ==
    {[date |-> <<40>>, data |-> 0],
     [date |-> <<39, 12>>, data |-> 3],
     [timestamp |-> <<39>>, data |-> 400000],
     [date |-> <<10, 12>>, timestamp |-> <<40>>, data |-> 7],
     [timestamp |-> <<10, 13>>, data |-> 1]}

\* the processors: the default one, one with small batches, one with a small budget
Processors == {BatchProcessor(100, 50), BatchProcessor(2, 50), BatchProcessor(100, 1)}

\* the record counts handed to calculate_optimal_batch_size
Totals == {0, 2, 104, 105, 100000}

\* the call  calculate_optimal_batch_size(historical_data[0], total_records)
calculate_optimal_batch_size_call ==
    /\ batched = NoBatch
    /\ historical_data # <<>>
    /\ \E total_records \in Totals \cup {Len(historical_data)} :
           batched' = [op |-> "calculate_optimal_batch_size", given |-> <<total_records>>]
                      @@ calculate_optimal_batch_size(processor, historical_data[1],
                                                      total_records)
    /\ UNCHANGED <<clock, processor, historical_data, exceptBatch>>

\* the call  batch_historical_data(historical_data)  or
\* batch_historical_data(historical_data, batch_size)
batch_historical_data_call ==
    /\ batched = NoBatch
    /\ \E batch_size \in {<<>>} \cup {<<n>> : n \in 1..(MaxRecords + 1)} :
           batched' = [op |-> "batch_historical_data", given |-> batch_size]
                      @@ batch_historical_data(processor, historical_data, batch_size)
    /\ UNCHANGED <<clock, processor, historical_data, exceptBatch>>

\* the call  summarize_historical_data(historical_data)  or
\* summarize_historical_data(historical_data, keep_last_n_days)
summarize_historical_data_call ==
    /\ batched = NoBatch
    /\ \E keep_last_n_days \in {1, 30} :
           batched' = [op |-> "summarize_historical_data", given |-> <<keep_last_n_days>>]
                      @@ (IF historical_data = <<>> THEN Returned(<<>>, 0, 0, 0)
                          ELSE summarize_historical_data(historical_data, keep_last_n_days,
                                                         clock))
    /\ UNCHANGED <<clock, processor, historical_data, exceptBatch>>

InitBatch ==
    /\ clock \in {40 * 24 + 12, 40 * 24 + 13}
    /\ processor \in Processors
    /\ \E n \in 0..MaxRecords : historical_data \in [1..n -> HistoricalRecords]
    /\ batched = NoBatch
    /\ CacheUnused
    /\ KeysUnused
    /\ MetricsUnused
    /\ EndpointUnused
    /\ HandlersUnused
    /\ AnalysisUnused
    /\ LimiterUnused
    /\ RedisUnused
    /\ SchedulerUnused

NextBatch ==
    \/ calculate_optimal_batch_size_call
    \/ batch_historical_data_call
    \/ summarize_historical_data_call

SpecBatch == InitBatch /\ [][NextBatch]_vars

(***************************************************************************)
(* ai_insights.generate_funnel_insights: the rate limiter                  *)
(*                                                                         *)
(* The clock counts half seconds.  Request handlers run the function       *)
(* concurrently and share the global _last_api_call; the function takes no *)
(* lock.  A handler's steps are the read of the global with the test, the  *)
(* sleep, and the write of the global with the call that follows it.       *)
(***************************************************************************)
\* a handler outside the function, and one at a statement of it
Outside == [at |-> "outside", until |-> 0]
At(statement, until) == [at |-> statement, until |-> until]

\* a request handler enters generate_funnel_insights
enter_generate_funnel_insights(h) ==
    /\ limited[h].at = "outside"
    /\ Len(api_calls) + Cardinality({g \in DOMAIN limited : limited[g].at # "outside"})
           < MaxRequests
    /\ limited' = [limited EXCEPT ![h] = At("check", 0)]
    /\ UNCHANGED <<clock, last_api_call, api_calls, exceptLimiter>>

\* time_since_last = time.time() - _last_api_call, and the test of it
rate_limit_check(h) ==
    /\ limited[h].at = "check"
    /\ LET time_since_last == clock - last_api_call
       IN  limited' = [limited EXCEPT ![h] =
               IF time_since_last < min_call_interval
               THEN At("sleep", clock + (min_call_interval - time_since_last))
               ELSE At("call", 0)]
    /\ UNCHANGED <<clock, last_api_call, api_calls, exceptLimiter>>

\* time.sleep(wait_time) returns
rate_limit_sleep(h) ==
    /\ limited[h].at = "sleep"
    /\ clock >= limited[h].until
    /\ limited' = [limited EXCEPT ![h] = At("call", 0)]
    /\ UNCHANGED <<clock, last_api_call, api_calls, exceptLimiter>>

\* _last_api_call = time.time()  and  client.messages.create(...)
call_model(h) ==
    /\ limited[h].at = "call"
    /\ last_api_call' = clock
    /\ api_calls' = Append(api_calls, clock)
    /\ limited' = [limited EXCEPT ![h] = Outside]
    /\ UNCHANGED <<clock, exceptLimiter>>

\* half a second passes
TickLimiter ==
    /\ clock < MaxClock
    /\ clock' = clock + 1
    /\ UNCHANGED <<limiterVars, exceptLimiter>>

InitLimiter ==
    /\ clock = min_call_interval
    /\ last_api_call = 0
    /\ limited = [h \in 1..Handlers |-> Outside]
    /\ api_calls = <<>>
    /\ CacheUnused
    /\ KeysUnused
    /\ MetricsUnused
    /\ EndpointUnused
    /\ HandlersUnused
    /\ AnalysisUnused
    /\ BatchUnused
    /\ RedisUnused
    /\ SchedulerUnused

NextLimiter ==
    \/ TickLimiter
    \/ \E h \in 1..Handlers :
           \/ enter_generate_funnel_insights(h)
           \/ rate_limit_check(h)
           \/ rate_limit_sleep(h)
           \/ call_model(h)

SpecLimiter == InitLimiter /\ [][NextLimiter]_vars

(***************************************************************************)
(* RedisCacheManager: cache_data and get_cached_data as time passes        *)
(***************************************************************************)
\* the keys of the calls: a report of today, and one of a given day
RedisKeys(t) ==
    {get_cache_key("476872592", "funnel", date, t) : date \in {<<>>, <<1>>}}

\* the call  cache_data(property_id, "funnel", data, ttl, date); a call on Redis may
\* raise, and then nothing is stored and False is returned
cache_data_call ==
    /\ \E key \in RedisKeys(clock), ttl \in {<<>>, <<1>>}, raises \in BOOLEAN :
           /\ raises => ~redis_client.mock
           /\ LET time == IF ttl = <<>> THEN default_ttl ELSE ttl[1]
                  cached == [data |-> "rows", cached_at |-> clock, ttl |-> time,
                             property_id |-> key[2], report_type |-> key[3]]
              IN  /\ redis_client' =
                         IF raises THEN redis_client
                         ELSE client_setex(redis_client, key, time, json_dumps(cached), clock)
                  /\ fetched' = [op |-> "cache_data", key |-> key, at |-> clock,
                                 returned |-> <<~raises>>]
    /\ UNCHANGED <<clock, exceptRedis>>

\* the call  get_cached_data(property_id, "funnel", date)
get_cached_data_call ==
    /\ \E key \in RedisKeys(clock), raises \in BOOLEAN :
           /\ raises => ~redis_client.mock
           /\ fetched' = [op |-> "get_cached_data", key |-> key, at |-> clock,
                          returned |-> get_cached_data(redis_client, key, raises, clock)]
    /\ UNCHANGED <<clock, redis_client, exceptRedis>>

\* an hour passes
TickRedis ==
    /\ clock < MaxClock
    /\ clock' = clock + 1
    /\ UNCHANGED <<redisVars, exceptRedis>>

InitRedis ==
    /\ clock = 0
    /\ redis_client \in {[mock |-> mock, data |-> <<>>] : mock \in BOOLEAN}
    /\ fetched = NoFetch
    /\ CacheUnused
    /\ KeysUnused
    /\ MetricsUnused
    /\ EndpointUnused
    /\ HandlersUnused
    /\ AnalysisUnused
    /\ BatchUnused
    /\ LimiterUnused
    /\ SchedulerUnused

NextRedis == cache_data_call \/ get_cached_data_call \/ TickRedis

SpecRedis == InitRedis /\ [][NextRedis]_vars

(***************************************************************************)
(* BackgroundSyncService: start_scheduler and stop_scheduler called one    *)
(* after the other, and the scheduler threads                              *)
(***************************************************************************)
\* start_scheduler up to the initial sync (lines 59-71): nothing if running
start_scheduler ==
    /\ caller.at = "idle"
    /\ \E interval_minutes \in 1..2 :
           IF running
           THEN /\ caller' = Idle("start_scheduler", TRUE, Len(jobs), Len(sync_threads))
                /\ UNCHANGED jobs
           ELSE /\ Len(sync_threads) < MaxThreads
                /\ jobs' = Append(jobs, Job(interval_minutes, clock))
                /\ caller' = [Idle("start_scheduler", FALSE, Len(jobs), Len(sync_threads))
                                EXCEPT !.at = "sync"]
    /\ UNCHANGED <<clock, running, sync_threads, exceptScheduler>>

\* start_scheduler after the initial sync (lines 74-78)
start_thread ==
    /\ caller.at = "sync"
    /\ running' = TRUE
    /\ sync_threads' = Append(sync_threads, Thread)
    /\ caller' = [caller EXCEPT !.at = "idle"]
    /\ UNCHANGED <<clock, jobs, exceptScheduler>>

\* stop_scheduler: nothing if not running; the join changes nothing
stop_scheduler ==
    /\ caller.at = "idle"
    /\ caller' = Idle("stop_scheduler", running, Len(jobs), Len(sync_threads))
    /\ IF ~running
       THEN UNCHANGED <<running, jobs, sync_threads>>
       ELSE /\ running' = FALSE
            /\ jobs' = <<>>
            /\ sync_threads' = [i \in DOMAIN sync_threads |->
                                   [sync_threads[i] EXCEPT !.stopped = TRUE]]
    /\ UNCHANGED <<clock, exceptScheduler>>

\* _run_scheduler, thread i:  while self.running
loop_test(i) ==
    /\ i \in DOMAIN sync_threads
    /\ sync_threads[i].at = "test"
    /\ sync_threads' = [sync_threads EXCEPT ![i] =
                           IF running THEN [@ EXCEPT !.at = "run_pending", !.resumed = @ \/ sync_threads[i].stopped]
                           ELSE [@ EXCEPT !.at = "done"]]
    /\ UNCHANGED <<clock, running, jobs, caller, exceptScheduler>>

\* _run_scheduler, thread i:  schedule.run_pending(), then the sleep begins
loop_run_pending(i) ==
    /\ i \in DOMAIN sync_threads
    /\ sync_threads[i].at = "run_pending"
    /\ jobs' = run_pending(jobs, clock)
    /\ sync_threads' = [sync_threads EXCEPT ![i] =
                           [@ EXCEPT !.at = "sleep", !.until = clock + sleep_time,
                                     !.synced = @ \/ (sync_threads[i].stopped /\ jobs' # jobs)]]
    /\ UNCHANGED <<clock, running, caller, exceptScheduler>>

\* _run_scheduler, thread i:  time.sleep(60) is over
loop_wake(i) ==
    /\ i \in DOMAIN sync_threads
    /\ sync_threads[i].at = "sleep"
    /\ clock >= sync_threads[i].until
    /\ sync_threads' = [sync_threads EXCEPT ![i] = [@ EXCEPT !.at = "test"]]
    /\ UNCHANGED <<clock, running, jobs, caller, exceptScheduler>>

\* half a minute passes; no thread oversleeps or pauses outside its sleep
TickScheduler ==
    /\ clock < MaxClock
    /\ \A i \in DOMAIN sync_threads :
           \/ sync_threads[i].at = "done"
           \/ sync_threads[i].at = "sleep" /\ sync_threads[i].until > clock
    /\ clock' = clock + 1
    /\ UNCHANGED <<schedulerVars, exceptScheduler>>

InitScheduler ==
    /\ clock = 0
    /\ SchedulerUnused
    /\ CacheUnused
    /\ KeysUnused
    /\ MetricsUnused
    /\ EndpointUnused
    /\ HandlersUnused
    /\ AnalysisUnused
    /\ BatchUnused
    /\ LimiterUnused
    /\ RedisUnused

NextScheduler ==
    \/ start_scheduler
    \/ start_thread
    \/ stop_scheduler
    \/ \E i \in 1..MaxThreads :
           \/ loop_test(i)
           \/ loop_run_pending(i)
           \/ loop_wake(i)
    \/ TickScheduler

SpecScheduler == InitScheduler /\ [][NextScheduler]_vars

(***************************************************************************)
(* main_api.funnel_analysis_endpoint, one request after the other          *)
(***************************************************************************)
\* the baselines a request overrides with: normal rates, and an overall rate of 0
OverrideBaselines ==
    {Dict(<< <<"view_item_to_add_to_cart", 5000>>, <<"add_to_cart_to_purchase", 5000>>,
             <<"overall_conversion", v>> >>) : v \in {0, 2500}}

\* the requests: dimension lists in either order, with or without a baseline
EndpointRequests ==
    [dimensions : {<<"browser", "deviceCategory">>, <<"deviceCategory", "browser">>},
     property_id : {"properties/1"},
     date_range : {"last_30_days"},
     baseline_rates : {NoDict} \cup OverrideBaselines]

\* the funnel data the provider returns: one segment; two segments that differ; one
\* segment with the provider's own overall_baseline
EndpointData ==
    LET mobile == [view_item |-> 100, add_to_cart |-> 30, purchase |-> 10]
        tablet == [view_item |-> 100, add_to_cart |-> 10, purchase |-> 1]
        one == FunnelDataOf({1}, [n \in {1} |-> mobile])
        two == FunnelDataOf({1, 2}, [n \in {1, 2} |-> IF n = 1 THEN mobile ELSE tablet])
    IN  {one, two,
         [one EXCEPT !.overall_baseline =
              Dict(<< <<"view_item_to_add_to_cart", 1500>>,
                      <<"add_to_cart_to_purchase", 3000>>,
                      <<"overall_conversion", 500>> >>)]}

\* POST /api/funnel-analysis: the whole handler
funnel_analysis_endpoint(request, data, ai) ==
    \E metrics \in {calculate_funnel_metrics(data)} :
    \E baseline_rates \in
           {IF truthy(request.baseline_rates) THEN request.baseline_rates
            ELSE IF data.overall_baseline.given THEN data.overall_baseline
            ELSE calculate_baseline_from_data(data)} :
    \E detected \in
           {detect_funnel_outliers(metrics.results, baseline_rates, OUTLIER_THRESHOLD)} :
    LET cache_key == cache_key_of(request)
        got == Got(cache, cache_key, now)
        cached_insights == got.result
        generated == generate_streamlined_insights(detected.outliers, ai)
        insights == IF ai = "disabled" THEN "basic" ELSE generated.insights
        saved == Saved(got.cache, max_cache_size, cache_key, insights, now)
        turn == 1 - lastRequest.turn
        Answered(cached, gen_calls, made, save_calls, stored, status) ==
            Served(turn, cache_key, cached, gen_calls, made, save_calls, stored, status, now,
                   request.baseline_rates, data, baseline_rates)
    IN  /\ IF \/ cached_insights = "ValueError"
              \/ metrics.raised # None
              \/ detected.raised # None
           THEN \* an exception before the insights step: the handler answers 500
                /\ cache' = got.cache
                /\ lastRequest' = Answered(None, 0, None, 0, None, 500)
           ELSE IF cached_insights # None
           THEN \* if cached_insights: insights = cached_insights
                /\ cache' = got.cache
                /\ lastRequest' = Answered(cached_insights, 0, None, 0, None, 200)
           ELSE IF ai = "disabled"
           THEN \* the basic insights stand in for the generator's and are saved
                /\ cache' = saved.cache
                /\ lastRequest' = Answered(None, 1, insights, 1, insights,
                                           IF saved.result = None THEN 200 ELSE 500)
           ELSE IF generated.raised # None
           THEN \* the generator raised: the handler answers 500 and saves nothing
                /\ cache' = got.cache
                /\ lastRequest' = Answered(None, 1, None, 0, None, 500)
           ELSE /\ cache' = saved.cache
                /\ lastRequest' = Answered(None, 1, insights, 1, insights,
                                           IF saved.result = None THEN 200 ELSE 500)
        /\ UNCHANGED <<max_cache_size, now, lastCall, calls>>
        /\ UNCHANGED <<keyVars, metricVars, concVars, analysisVars, serviceVars>>

\* the process starts with an empty cache and no request served
InitEndpoint ==
    /\ InitEmpty
    /\ lastCall = Record("init", 0, None, None, {})
    /\ calls = 0
    /\ lastRequest = NoRequest
    /\ HandlersUnused
    /\ KeysUnused
    /\ MetricsUnused
    /\ AnalysisUnused
    /\ ServicesUnused

NextEndpoint ==
    \/ \E request \in EndpointRequests, data \in EndpointData, ai \in AiModes :
           funnel_analysis_endpoint(request, data, ai)
    \/ Tick

SpecEndpoint == InitEndpoint /\ [][NextEndpoint]_vars

(***************************************************************************)
(* Request handlers running concurrently on the global cache_manager       *)
(*                                                                         *)
(* app.run(...) serves every request on a thread of its own and            *)
(* CacheManager takes no lock.  A handler's steps are the statements that  *)
(* read or write self.cache; between two of them any other handler may     *)
(* run.  A handler looks its fingerprint up, and on a miss calls the       *)
(* generator and saves what it returned.                                   *)
(***************************************************************************)
Threads == 1..Handlers

\* a handler's locals: its fingerprint, the insights it generated, the keys
\* _cleanup_oldest_entries still has to delete, and the exception that ended one of
\* its requests
NoLocal == [cache_key |-> 0, insights |-> None, victims |-> <<>>, error |-> None]

\* sorted_entries[:entries_to_remove], oldest first
VictimList(c, cap) ==
    [r \in 1..Cardinality(Victims(c, cap)) |->
        c[CHOOSE i \in DOMAIN c : SortedPlace(c, i) = r].key]

\* handler t moves to step s
Goto(t, s) == pc' = [pc EXCEPT ![t] = s]

\* what no handler step changes
ConcFrame ==
    /\ UNCHANGED <<max_cache_size, now, lastCall, calls>>
    /\ UNCHANGED <<keyVars, metricVars, endpointVars, analysisVars, serviceVars>>

\* a request with fingerprint k arrives and handler t takes it
start_request(t, k) ==
    /\ pc[t] = "idle"
    /\ started < MaxRequests
    /\ started' = started + 1
    /\ local' = [local EXCEPT ![t].cache_key = k, ![t].insights = None, ![t].victims = <<>>]
    /\ Goto(t, "get_check")
    /\ UNCHANGED <<cache, lastGenerated>>
    /\ ConcFrame

\* get_cached_insights:  if cache_key not in self.cache: return None
get_check(t) ==
    /\ pc[t] = "get_check"
    /\ Goto(t, IF Contains(cache, local[t].cache_key) THEN "get_read" ELSE "generate")
    /\ UNCHANGED <<cache, local, started, lastGenerated>>
    /\ ConcFrame

\* get_cached_insights:  cached_data = self.cache[cache_key]  and the expiry test; an
\* entry that is fresh is returned and the request is answered from the cache
get_read(t) ==
    /\ pc[t] = "get_read"
    /\ IF ~Contains(cache, local[t].cache_key)
       THEN /\ local' = [local EXCEPT ![t].error = "KeyError"]
            /\ Goto(t, "idle")
       ELSE /\ local' = local
            /\ Goto(t, IF Expired(Lookup(cache, local[t].cache_key), now)
                       THEN "get_del" ELSE "idle")
    /\ UNCHANGED <<cache, started, lastGenerated>>
    /\ ConcFrame

\* get_cached_insights:  del self.cache[cache_key]; return None
get_del(t) ==
    /\ pc[t] = "get_del"
    /\ IF ~Contains(cache, local[t].cache_key)
       THEN /\ local' = [local EXCEPT ![t].error = "KeyError"]
            /\ Goto(t, "idle")
            /\ UNCHANGED <<cache, lastGenerated>>
       ELSE /\ cache' = Delete(cache, local[t].cache_key)
            /\ lastGenerated' = [lastGenerated EXCEPT ![local[t].cache_key] = -1]
            /\ local' = local
            /\ Goto(t, "generate")
    /\ UNCHANGED started
    /\ ConcFrame

\* the endpoint, after a miss:  insights = generate_streamlined_insights(...)
generate(t) ==
    /\ pc[t] = "generate"
    /\ local' = [local EXCEPT ![t].insights = "p1"]
    /\ lastGenerated' = [lastGenerated EXCEPT ![local[t].cache_key] = now]
    /\ Goto(t, "save_check")
    /\ UNCHANGED <<cache, started>>
    /\ ConcFrame

\* save_insights:  if len(self.cache) >= self.max_cache_size
save_check(t) ==
    /\ pc[t] = "save_check"
    /\ Goto(t, IF Len(cache) >= max_cache_size THEN "cleanup_sort" ELSE "save_store")
    /\ UNCHANGED <<cache, local, started, lastGenerated>>
    /\ ConcFrame

\* _cleanup_oldest_entries:  sorted_entries = sorted(self.cache.keys(), ...)
cleanup_sort(t) ==
    /\ pc[t] = "cleanup_sort"
    /\ local' = [local EXCEPT ![t].victims = VictimList(cache, max_cache_size)]
    /\ Goto(t, IF VictimList(cache, max_cache_size) = <<>> THEN "save_store" ELSE "cleanup_del")
    /\ UNCHANGED <<cache, started, lastGenerated>>
    /\ ConcFrame

\* _cleanup_oldest_entries:  del self.cache[key]  for the next selected key
cleanup_del(t) ==
    /\ pc[t] = "cleanup_del"
    /\ IF ~Contains(cache, Head(local[t].victims))
       THEN /\ local' = [local EXCEPT ![t].error = "KeyError"]
            /\ Goto(t, "idle")
            /\ UNCHANGED <<cache, lastGenerated>>
       ELSE /\ cache' = Delete(cache, Head(local[t].victims))
            /\ lastGenerated' = [lastGenerated EXCEPT ![Head(local[t].victims)] = -1]
            /\ local' = [local EXCEPT ![t].victims = Tail(local[t].victims)]
            /\ Goto(t, IF Tail(local[t].victims) = <<>> THEN "save_store" ELSE "cleanup_del")
    /\ UNCHANGED started
    /\ ConcFrame

\* save_insights:  self.cache[cache_key] = {...}
save_store(t) ==
    /\ pc[t] = "save_store"
    /\ cache' = Store(cache, NewEntry(local[t].cache_key, local[t].insights, now))
    /\ Goto(t, "idle")
    /\ UNCHANGED <<local, started, lastGenerated>>
    /\ ConcFrame

\* the process starts with an empty cache and idle handlers
InitConc ==
    /\ InitEmpty
    /\ lastCall = Record("init", 0, None, None, {})
    /\ calls = 0
    /\ pc = [t \in Threads |-> "idle"]
    /\ local = [t \in Threads |-> NoLocal]
    /\ started = 0
    /\ lastGenerated = [k \in Keys |-> -1]
    /\ EndpointUnused
    /\ KeysUnused
    /\ MetricsUnused
    /\ AnalysisUnused
    /\ ServicesUnused

NextConc ==
    \/ \E t \in Threads, k \in Keys : start_request(t, k)
    \/ \E t \in Threads : get_check(t)
    \/ \E t \in Threads : get_read(t)
    \/ \E t \in Threads : get_del(t)
    \/ \E t \in Threads : generate(t)
    \/ \E t \in Threads : save_check(t)
    \/ \E t \in Threads : cleanup_sort(t)
    \/ \E t \in Threads : cleanup_del(t)
    \/ \E t \in Threads : save_store(t)
    \/ Tick

SpecConc == InitConc /\ [][NextConc]_vars

(***************************************************************************)
(* Claims about generate_cache_key                                         *)
(***************************************************************************)
\* how often x occurs in list l
Occurrences(l, x) == Cardinality({i \in DOMAIN l : l[i] = x})

\* the two lists are permutations of one another
IsPermutation(l1, l2) ==
    /\ Len(l1) = Len(l2)
    /\ \A i \in DOMAIN l1 : Occurrences(l1, l1[i]) = Occurrences(l2, l1[i])

\* the two baseline_rates are the same mapping, whatever the order of their keys
SameMapping(b1, b2) ==
    /\ b1.given = b2.given
    /\ {b1.items[i] : i \in DOMAIN b1.items} = {b2.items[i] : i \in DOMAIN b2.items}

\* C9: two requests that agree on property_id, date_range and baseline_rates (as
\* mappings, in any key order) and whose dimension lists are permutations of one
\* another get the same fingerprint.
C9_FingerprintIgnoresOrder ==
    (/\ cache_keyA # NoKey
     /\ cache_keyB # NoKey
     /\ dataA.property_id = dataB.property_id
     /\ dataA.date_range = dataB.date_range
     /\ SameMapping(dataA.baseline_rates, dataB.baseline_rates)
     /\ IsPermutation(dataA.dimensions, dataB.dimensions))
        => cache_keyA = cache_keyB

\* C9 witness: both fingerprints computed for requests whose dimension lists and
\* whose baseline dicts hold the same items in different orders
C9_Witness ==
    /\ cache_keyA # NoKey
    /\ cache_keyA = cache_keyB
    /\ dataA.dimensions # dataB.dimensions
    /\ dataA.baseline_rates # dataB.baseline_rates

(***************************************************************************)
(* Claims about the CacheManager                                           *)
(***************************************************************************)
\* a step that is a CacheManager call (Tick is the only step that moves the clock)
IsCall(op) == lastCall'.op = op /\ now' = now

\* C1: with max_cache_size >= 1, after any sequence of save_insights,
\* get_cached_insights and clear_cache calls the number of stored entries never
\* exceeds max_cache_size.
C1_SizeNeverExceedsCapacity ==
    max_cache_size >= 1 => Len(cache) <= max_cache_size

\* C1 witness: a save into a full cache has evicted and left the cache full again
C1_Witness ==
    /\ lastCall.op = "save"
    /\ lastCall.evicted # {}
    /\ Len(cache) = max_cache_size

\* C2: a save_insights called with the entry count at or above max_cache_size evicts
\* max(1, max_cache_size // 4) entries before it stores the new one; every entry that
\* survives the eviction was created no earlier than every evicted entry; the new
\* entry is stored after the eviction and so is never among the evicted.
C2_EvictsOldestBeforeInsert ==
    [][(IsCall("save") /\ Len(cache) >= max_cache_size) =>
        LET gone == lastCall'.evicted
            k    == lastCall'.key
        IN  /\ gone \subseteq CacheKeys(cache)
            /\ Cardinality(gone) = Max(1, max_cache_size \div 4)
            /\ \A i, j \in DOMAIN cache :
                   (cache[i].key \in gone /\ cache[j].key \notin gone)
                       => cache[j].timestamp >= cache[i].timestamp
            /\ CacheKeys(cache') = (CacheKeys(cache) \ gone) \cup {k}
            /\ \A j \in DOMAIN cache :
                   cache[j].key \notin gone \cup {k}
                       => \E i \in DOMAIN cache' : cache'[i] = cache[j]
            /\ \E i \in DOMAIN cache' :
                   /\ cache'[i].key = k
                   /\ cache'[i].timestamp = now
                   /\ cache'[i].insights = lastCall'.insights]_vars

\* C2 witness: a save has evicted two entries (25% of the capacity), one of them
\* strictly older than a survivor
C2_Witness ==
    /\ lastCall.op = "save"
    /\ Cardinality(lastCall.evicted) = 2
    /\ \E i \in DOMAIN cache : cache[i].timestamp = 0
    /\ \E i \in DOMAIN cache : cache[i].timestamp = 1 /\ cache[i].key # lastCall.key

\* C3: get_cached_insights(k) returns None when k is absent; when k is present and
\* now - created_at exceeds the TTL it removes the entry and returns None; otherwise
\* it returns the stored payload and leaves the cache unchanged.
C3_GetMissExpiredHit ==
    [][IsCall("get") =>
        LET k == lastCall'.key
            at == {i \in DOMAIN cache : cache[i].key = k}
        IN  IF at = {}
            THEN lastCall'.result = None /\ cache' = cache
            ELSE \A i \in at :
                    IF now - cache[i].timestamp > CacheDuration
                    THEN /\ lastCall'.result = None
                         /\ CacheKeys(cache') = CacheKeys(cache) \ {k}
                         /\ Len(cache') = Len(cache) - 1
                    ELSE /\ lastCall'.result = cache[i].insights
                         /\ cache' = cache]_vars

\* C3 witness: a get has found its entry expired and removed it
C3_Witness ==
    /\ lastCall.op = "get"
    /\ lastCall.evicted = {lastCall.key}
    /\ lastCall.result = None

\* C4: if the stored timestamp of the entry is unparseable, get_cached_insights
\* treats the lookup as a miss and returns None; it raises nothing.
C4_CorruptTimestampIsMiss ==
    (/\ lastCall.op = "get"
     /\ \E i \in DOMAIN cache : cache[i].key = lastCall.key /\ ~cache[i].valid)
        => lastCall.result = None

\* C5: a write is never rejected for capacity: right after save_insights(k, p), also
\* when the cache was full, k is stored with payload p and the current time, and a
\* get_cached_insights(k) that follows at once returns p.
C5_SaveAlwaysStores ==
    [][/\ IsCall("save") =>
            /\ lastCall'.result = None
            /\ \E i \in DOMAIN cache' :
                   /\ cache'[i].key = lastCall'.key
                   /\ cache'[i].insights = lastCall'.insights
                   /\ cache'[i].timestamp = now
       /\ (lastCall.op = "save" /\ IsCall("get") /\ lastCall'.key = lastCall.key) =>
            lastCall'.result = lastCall.insights]_vars

\* C5 witness: the saved key was itself among the entries evicted by the save, and
\* is stored again
C5_Witness ==
    /\ lastCall.op = "save"
    /\ lastCall.key \in lastCall.evicted
    /\ Contains(cache, lastCall.key)

(***************************************************************************)
(* Claims about calculate_funnel_metrics                                   *)
(***************************************************************************)
\* rate (in units of 0.0001) is num / den rounded to 4 decimals if den > 0, else 0
IsRate(rate, num, den) ==
    IF den > 0 THEN 2 * Abs(10000 * num - rate * den) <= den ELSE rate = 0

\* C10: calculate_funnel_metrics raises nothing and returns one record for every
\* (dimension, value) of the input, with view_to_cart = add_to_cart / view_item if
\* view_item > 0 else 0, cart_to_purchase = purchase / add_to_cart if add_to_cart > 0
\* else 0, overall = purchase / view_item if view_item > 0 else 0, each rounded to 4
\* decimals; all-zero counts give rates that are all 0.
C10_MetricsPerPair ==
    funnel_metrics.computed =>
        LET breakdowns == funnel_data.dimension_breakdowns
            results == funnel_metrics.results
        IN  /\ funnel_metrics.raised = None
            /\ Len(results) = Len(breakdowns)
            /\ \A i \in 1..Len(breakdowns) :
                  LET s == breakdowns[i].steps
                      m == results[i].metrics
                  IN  /\ results[i].dimension = breakdowns[i].dimension
                      /\ results[i].value = breakdowns[i].value
                      /\ IsRate(m.view_to_cart_rate, s.add_to_cart, s.view_item)
                      /\ IsRate(m.cart_to_purchase_rate, s.purchase, s.add_to_cart)
                      /\ IsRate(m.overall_conversion_rate, s.purchase, s.view_item)
                      /\ (s.view_item = 0 /\ s.add_to_cart = 0 /\ s.purchase = 0) =>
                            /\ m.view_to_cart_rate = 0
                            /\ m.cart_to_purchase_rate = 0
                            /\ m.overall_conversion_rate = 0

\* C10 witness: metrics computed for data with an all-zero pair, a pair with no views
\* but purchases, and a pair whose rate 1/3 had to be rounded
C10_Witness ==
    /\ funnel_metrics.computed
    /\ funnel_metrics.raised = None
    /\ LET breakdowns == funnel_data.dimension_breakdowns
           results == funnel_metrics.results
       IN  /\ Len(results) = 3
           /\ \E i \in 1..3 : breakdowns[i].steps = [view_item |-> 0, add_to_cart |-> 0, purchase |-> 0]
           /\ \E i \in 1..3 : /\ breakdowns[i].steps = [view_item |-> 0, add_to_cart |-> 2, purchase |-> 1]
                              /\ results[i].metrics.view_to_cart_rate = 0
                              /\ results[i].metrics.cart_to_purchase_rate = 5000
           /\ \E i \in 1..3 : /\ breakdowns[i].steps = [view_item |-> 3, add_to_cart |-> 1, purchase |-> 0]
                              /\ results[i].metrics.view_to_cart_rate = 3333

(***************************************************************************)
(* Claims about the funnel endpoint's use of the cache                     *)
(***************************************************************************)
\* C6: a request that finds its fingerprint cached invokes neither the generator
\* nor save_insights; a request that misses invokes the generator once and then
\* save_insights once, with the same fingerprint and the payload the generator
\* returned, and the next request with the same fingerprint within the TTL is a hit.
C6_MissGeneratesAndSaves ==
    [][lastRequest'.turn # lastRequest.turn =>
          /\ lastRequest'.cached_insights # None =>
                /\ lastRequest'.generator_calls = 0
                /\ lastRequest'.save_calls = 0
          /\ lastRequest'.cached_insights = None =>
                /\ lastRequest'.generator_calls = 1
                /\ lastRequest'.save_calls = 1
                /\ lastRequest'.saved = lastRequest'.generated
                /\ Contains(cache', lastRequest'.cache_key)
                /\ Lookup(cache', lastRequest'.cache_key).insights = lastRequest'.generated
          /\ (/\ lastRequest.status # 0
              /\ lastRequest.cached_insights = None
              /\ lastRequest.cache_key = lastRequest'.cache_key
              /\ now - lastRequest.at <= CacheDuration) =>
                lastRequest'.cached_insights # None]_vars

(***************************************************************************)
(* Claims about concurrent request handlers                                *)
(***************************************************************************)
\* C7: under every interleaving of concurrent handlers the number of stored entries
\* never exceeds max_cache_size and no call fails because another handler already
\* removed the entry it was about to delete or read.
C7_MutualExclusion ==
    /\ Len(cache) <= max_cache_size
    /\ \A t \in Threads : local[t].error = None

\* C8: the generator is not invoked for a fingerprint for which it was already invoked
\* within the TTL, unless the entry saved for it has been removed in between; this
\* includes two requests with the same fingerprint handled concurrently.
C8_NoRedundantGeneration ==
    [][\A t \in Threads :
          (pc[t] = "generate" /\ pc'[t] = "save_check") =>
              \/ lastGenerated[local[t].cache_key] = -1
              \/ now - lastGenerated[local[t].cache_key] > CacheDuration]_vars

\* C11: for every input of non-negative step counts, also one where a later step's
\* count exceeds an earlier step's, each of the three rates of every record lies in
\* [0, 1] (0..10000 in units of 0.0001).
C11_RatesInUnitInterval ==
    funnel_metrics.computed =>
        \A i \in 1..Len(funnel_metrics.results) :
            LET m == funnel_metrics.results[i].metrics
            IN  /\ m.view_to_cart_rate \in 0..10000
                /\ m.cart_to_purchase_rate \in 0..10000
                /\ m.overall_conversion_rate \in 0..10000

\* C12: the baseline a request's outlier detection uses is the baseline the caller
\* supplied, verbatim, whenever there is one, and otherwise the three rates of the
\* counts summed over every value of every dimension of the data.
C12_BaselineSuppliedOrSummed ==
    lastRequest.status # 0 =>
        lastRequest.baseline_rates =
            IF lastRequest.baseline_rates_override.given
            THEN lastRequest.baseline_rates_override
            ELSE calculate_baseline_from_data(lastRequest.funnel_data)

(***************************************************************************)
(* Claims about detect_funnel_outliers                                     *)
(***************************************************************************)
\* the rate the baseline handed to the detection holds under key k, 0 if it holds none
GivenRate(k) == dict_get(baseline_given, k, 0)

\* whether the detection reported the (dimension, value) of a result
Reported(result) ==
    \E j \in DOMAIN outliers_found.outliers :
        /\ outliers_found.outliers[j].dimension = result.dimension
        /\ outliers_found.outliers[j].dimension_value = result.value

\* C13: detect_funnel_outliers has no exception path: whatever rates of the baseline
\* are absent, zero or positive (an overall_conversion of 0 beside two non-zero rates
\* included) it returns normally, and when the view_to_cart or the cart_to_purchase
\* baseline is zero or absent it reports no value of any dimension.
C13_DetectNeverRaises ==
    outliers_found.computed =>
        /\ outliers_found.raised = None
        /\ (GivenRate("view_item_to_add_to_cart") = 0 \/ GivenRate("add_to_cart_to_purchase") = 0)
               => outliers_found.outliers = <<>>

\* whether rate lies more than the threshold away from a positive baseline, relatively:
\* abs((rate - baseline) / baseline) > T, in exact arithmetic
Beyond(rate, baseline) ==
    Abs(rate - baseline) * threshold_given.den > threshold_given.num * baseline

\* C14: with a baseline of three positive rates, a (dimension, value) is reported as an
\* outlier if and only if at least one of its three deviations (value - baseline) /
\* baseline is greater than the threshold T in absolute value; a value whose largest
\* absolute deviation is exactly T is not reported.
C14_ReportedIffBeyondThreshold ==
    (/\ outliers_found.computed
     /\ outliers_found.raised = None
     /\ GivenRate("view_item_to_add_to_cart") > 0
     /\ GivenRate("add_to_cart_to_purchase") > 0
     /\ GivenRate("overall_conversion") > 0)
    => \A i \in DOMAIN funnel_metrics.results :
           LET result == funnel_metrics.results[i]
           IN  Reported(result) <=>
                   \/ Beyond(result.metrics.view_to_cart_rate,
                             GivenRate("view_item_to_add_to_cart"))
                   \/ Beyond(result.metrics.cart_to_purchase_rate,
                             GivenRate("add_to_cart_to_purchase"))
                   \/ Beyond(result.metrics.overall_conversion_rate,
                             GivenRate("overall_conversion"))

\* C15: every outlier detect_funnel_outliers returns carries the severity critical,
\* high or medium; none carries the severity low.
C15_NoLowSeverityOutlier ==
    outliers_found.computed =>
        \A j \in DOMAIN outliers_found.outliers :
            outliers_found.outliers[j].severity \in {"critical", "high", "medium"}

\* C17: in the worked scenario (channel Social with view_item = 800, add_to_cart = 65,
\* purchase = 5, the baseline 0.152 / 0.087 / 0.0132 and T = 0.20) the detection
\* reports view_to_cart_rate 0.0813 with the view_to_cart deviation -0.4654 and
\* overall_conversion_rate 0.0063 with the overall deviation -0.5265, the severity
\* critical and the performance below.
C17_WorkedScenario ==
    (/\ outliers_found.computed
     /\ threshold_given = OUTLIER_THRESHOLD
     /\ baseline_given = Dict(<< <<"view_item_to_add_to_cart", 1520>>,
                                 <<"add_to_cart_to_purchase", 870>>,
                                 <<"overall_conversion", 132>> >>)
     /\ \E i \in DOMAIN funnel_data.dimension_breakdowns :
            funnel_data.dimension_breakdowns[i] =
                [dimension |-> "channel", value |-> "Social",
                 steps |-> [view_item |-> 800, add_to_cart |-> 65, purchase |-> 5]])
    => \E j \in DOMAIN outliers_found.outliers :
           LET o == outliers_found.outliers[j]
           IN  /\ o.dimension = "channel"
               /\ o.dimension_value = "Social"
               /\ o.view_to_cart_rate = 813
               /\ o.view_to_cart_deviation = -4654
               /\ o.overall_conversion_rate = 63
               /\ o.overall_deviation = -5265
               /\ o.severity = "critical"
               /\ o.performance = "below"

\* the place of an outlier's (dimension, value) among the results handed in
InputPlace(o) ==
    CHOOSE i \in DOMAIN funnel_metrics.results :
        /\ funnel_metrics.results[i].dimension = o.dimension
        /\ funnel_metrics.results[i].value = o.dimension_value

\* C18: in the output of detect_funnel_outliers every dimension's list is sorted by
\* descending absolute overall deviation, and an outlier's performance is above exactly
\* when its overall deviation is greater than 0 (its overall rate greater than the
\* baseline's) and below otherwise.
C18_SortedAndTagged ==
    (outliers_found.computed /\ outliers_found.raised = None) =>
        LET outliers == outliers_found.outliers
        IN  /\ \A j, k \in DOMAIN outliers :
                   (j < k /\ outliers[j].dimension = outliers[k].dimension) =>
                       /\ Abs(outliers[j].overall_deviation) >= Abs(outliers[k].overall_deviation)
                       /\ \A m \in j..k : outliers[m].dimension = outliers[j].dimension
            /\ \A j \in DOMAIN outliers :
                   /\ outliers[j].performance \in {"above", "below"}
                   /\ outliers[j].performance = "above" <=> outliers[j].overall_deviation > 0
                   /\ outliers[j].performance = "above" <=>
                          outliers[j].overall_conversion_rate > GivenRate("overall_conversion")

\* C18 witness: two outliers of one dimension, one above and one below the baseline,
\* returned in the opposite of the order they were handed in, the larger deviation first
C18_Witness ==
    /\ outliers_found.computed
    /\ outliers_found.raised = None
    /\ \E j, k \in DOMAIN outliers_found.outliers :
           LET first == outliers_found.outliers[j]
               second == outliers_found.outliers[k]
           IN  /\ j < k
               /\ first.dimension = second.dimension
               /\ Abs(first.overall_deviation) > Abs(second.overall_deviation)
               /\ InputPlace(first) > InputPlace(second)
               /\ first.performance = "above"
               /\ second.performance = "below"

(***************************************************************************)
(* Claims about calculate_severity                                         *)
(***************************************************************************)
\* whether abs(deviation) >= threshold * num / den, in exact arithmetic
AtLeast(deviation, threshold, num, den) ==
    Abs(deviation.num) * threshold.den * den >= num * threshold.num * deviation.den

\* C16: calculate_severity(d, T) depends on |d| and T only: it is critical when
\* |d| >= 2T, high when 1.5T <= |d| < 2T and medium when T <= |d| < 1.5T; so |d| = 2T
\* gives critical, |d| = 1.5T gives high, and d and -d give the same severity.
C16_SeverityBands ==
    severity_found # None =>
        /\ AtLeast(deviation_given, threshold_given, 2, 1) => severity_found = "critical"
        /\ (/\ AtLeast(deviation_given, threshold_given, 3, 2)
            /\ ~AtLeast(deviation_given, threshold_given, 2, 1)) => severity_found = "high"
        /\ (/\ AtLeast(deviation_given, threshold_given, 1, 1)
            /\ ~AtLeast(deviation_given, threshold_given, 3, 2)) => severity_found = "medium"

(***************************************************************************)
(* Claims about prepare_for_n8n_storage                                    *)
(***************************************************************************)
\* C19: applying prepare_for_n8n_storage to a payload that prepare_for_n8n_storage
\* returned gives back the identical payload: once the function has been applied
\* twice in a row, what the second application returned equals what it was given.
C19_SecondApplicationIdentical ==
    applications = 2 => payload = previous

\* text is the first characters of whole, at most budget of them
IsPrefixWithin(text, whole, budget) ==
    /\ Len(text) <= budget
    /\ Len(text) <= Len(whole)
    /\ text = SubSeq(whole, 1, Len(text))
    /\ Len(whole) <= budget => text = whole

\* the list `kept` has at most 5 entries and as many as `given` if that has no more
FirstEntries(kept, given) ==
    /\ Len(kept) <= 5
    /\ Len(kept) <= Len(given)
    /\ Len(given) <= 5 => Len(kept) = Len(given)

\* C20: the payload prepare_for_n8n_storage returns has at most 5 critical issues,
\* 5 opportunities and 5 recommendations; the n-th entry of each list is made from the
\* n-th entry of the list it was given; an issue and an opportunity text are the first
\* characters of the given text and at most 200 of them, an action at most 150 and a
\* recommendation's impact at most 100 of the given expected impact.
C20_LimitedAndTruncated ==
    applications >= 1 =>
        /\ payload.model = get(previous, "model", None)
        /\ FirstEntries(payload.critical_issues, previous.critical_issues)
        /\ FirstEntries(payload.opportunities, previous.opportunities)
        /\ FirstEntries(payload.recommendations, previous.recommendations)
        /\ \A n \in 1..Len(payload.critical_issues) :
               LET kept == payload.critical_issues[n]
                   given == previous.critical_issues[n]
               IN  /\ DOMAIN kept = {"dimension", "value", "issue", "impact"}
                   /\ kept.dimension = given.dimension
                   /\ kept.value = given.value
                   /\ kept.impact = given.impact
                   /\ IsPrefixWithin(kept.issue, get(given, "issue", <<>>), 200)
        /\ \A n \in 1..Len(payload.opportunities) :
               LET kept == payload.opportunities[n]
                   given == previous.opportunities[n]
               IN  /\ DOMAIN kept = {"dimension", "value", "opportunity", "potential_lift"}
                   /\ kept.dimension = given.dimension
                   /\ kept.value = given.value
                   /\ kept.potential_lift = given.potential_lift
                   /\ IsPrefixWithin(kept.opportunity, get(given, "opportunity", <<>>), 200)
        /\ \A n \in 1..Len(payload.recommendations) :
               LET kept == payload.recommendations[n]
                   given == previous.recommendations[n]
               IN  /\ DOMAIN kept = {"priority", "action", "impact", "implementation"}
                   /\ kept.priority = given.priority
                   /\ kept.implementation = given.implementation
                   /\ IsPrefixWithin(kept.action, get(given, "action", <<>>), 150)
                   /\ IsPrefixWithin(kept.impact, get(given, "expected_impact", <<>>), 100)

\* the insights held more than 5 entries in each list, each text longer than it may
\* stay, and the payload made from them holds 5 entries that were cut short
C20_Witness ==
    /\ applications = 1
    /\ Len(previous.critical_issues) > 5
    /\ Len(previous.opportunities) > 5
    /\ Len(previous.recommendations) > 5
    /\ Len(get(previous.critical_issues[1], "issue", <<>>)) > 200
    /\ Len(get(previous.opportunities[1], "opportunity", <<>>)) > 200
    /\ Len(get(previous.recommendations[1], "action", <<>>)) > 150
    /\ Len(get(previous.recommendations[1], "expected_impact", <<>>)) > 100
    /\ Len(payload.critical_issues) = 5
    /\ Len(payload.opportunities) = 5
    /\ Len(payload.recommendations) = 5
    /\ Len(payload.critical_issues[5].issue) = 200
    /\ Len(payload.opportunities[5].opportunity) = 200
    /\ Len(payload.recommendations[5].action) = 150
    /\ Len(payload.recommendations[5].impact) = 100

(***************************************************************************)
(* Claims about the BatchProcessor                                         *)
(***************************************************************************)
\* the last call was this operation
BatchCall(op) == batched.op = op

\* floor(storage_budget_bytes / record_size * 0.8), in exact arithmetic
ExactMaxRecords == (4 * processor.max_storage_bytes) \div (5 * batched.record_size)

\* C21: calculate_optimal_batch_size computes max_records = floor(storage budget /
\* record_size * 0.8) and returns min(total_records, max_batch_size) when total_records
\* <= max_records, and min(max_records // 30, max_batch_size) otherwise.
C21_BatchSizeFormula ==
    BatchCall("calculate_optimal_batch_size") =>
        /\ batched.raised = None
        /\ batched.record_size = json_len(historical_data[1])
        /\ batched.max_records = ExactMaxRecords
        /\ batched.returned =
               IF batched.given[1] <= ExactMaxRecords
               THEN Min(batched.given[1], processor.max_batch_size)
               ELSE Min(ExactMaxRecords \div 30, processor.max_batch_size)

\* more records than fit, and the batch size is a thirtieth of what fits, below the
\* largest batch size
C21_Witness ==
    /\ BatchCall("calculate_optimal_batch_size")
    /\ batched.given[1] > batched.max_records
    /\ batched.returned = batched.max_records \div 30
    /\ batched.returned > 0
    /\ batched.returned < processor.max_batch_size

C23_ChunkWithinBudget ==
    BatchCall("calculate_optimal_batch_size") /\ batched.raised = None =>
        batched.returned * batched.record_size <= processor.max_storage_bytes

\* a batch of the largest size whose estimated size takes more than half the budget
C23_Witness ==
    /\ BatchCall("calculate_optimal_batch_size")
    /\ batched.raised = None
    /\ batched.returned = processor.max_batch_size
    /\ 2 * batched.returned * batched.record_size > processor.max_storage_bytes

\* the chunks one after the other
RECURSIVE Concatenation(_)
Concatenation(chunks) ==
    IF chunks = <<>> THEN <<>> ELSE Head(chunks) \o Concatenation(Tail(chunks))

\* C24: batch_historical_data splits the records into contiguous chunks whose
\* concatenation in order is the input: every chunk is non-empty, every chunk but
\* the last has exactly batch_size records, the last at most batch_size, and an empty
\* input yields no chunks.
C24_ChunksPartitionInput ==
    BatchCall("batch_historical_data") =>
        /\ batched.raised = None
        /\ Concatenation(batched.returned) = historical_data
        /\ \A n \in 1..Len(batched.returned) :
               /\ batched.returned[n] # <<>>
               /\ Len(batched.returned[n]) <= batched.batch_size
               /\ n < Len(batched.returned) => Len(batched.returned[n]) = batched.batch_size
        /\ batched.given # <<>> /\ historical_data # <<>> =>
               batched.batch_size = batched.given[1]
        /\ historical_data = <<>> => batched.returned = <<>>

\* C28: for a non-empty list of records, batch_historical_data called without a batch
\* size does not raise, and the batch size it obtains is at least 1.
C28_AutoBatchSizePositive ==
    BatchCall("batch_historical_data") /\ batched.given = <<>> /\ historical_data # <<>> =>
        /\ batched.raised = None
        /\ batched.batch_size >= 1

\* the date of a record in hours: its 'date', or else its 'timestamp'
HoursOf(record) ==
    LET text == IF "date" \in DOMAIN record THEN record.date ELSE record.timestamp
    IN  24 * text[1] + (IF Len(text) = 2 THEN text[2] ELSE 0)

\* the places of the records within the retention window of the last call
InWindow == {n \in 1..Len(historical_data) :
                HoursOf(historical_data[n]) >= clock - 24 * batched.given[1]}

C26_CallsApart ==
    \A n \in 1..(Len(api_calls) - 1) : api_calls[n + 1] - api_calls[n] >= min_call_interval

(***************************************************************************)
(* Claims about the RedisCacheManager                                      *)
(***************************************************************************)
\* C27: get_cached_data returns None for an entry that was never cached or whose TTL
\* has elapsed since cache_data stored it, whichever client backs the manager: what
\* it does return was stored for the key asked for, less than its TTL ago.
C27_NoneWhenAbsentOrExpired ==
    fetched.op = "get_cached_data" /\ fetched.returned # <<>> =>
        /\ fetched.key \in DOMAIN redis_client.data
        /\ fetched.returned[1].property_id = fetched.key[2]
        /\ fetched.returned[1].report_type = fetched.key[3]
        /\ fetched.at - fetched.returned[1].cached_at < fetched.returned[1].ttl

(***************************************************************************)
(* Claims about the BackgroundSyncService                                  *)
(***************************************************************************)
\* the threads in the body of the _run_scheduler loop that were not stopped, or
\* went round the loop again after they were
Looping ==
    {i \in DOMAIN sync_threads :
        /\ sync_threads[i].at \in {"run_pending", "sleep"}
        /\ ~sync_threads[i].stopped \/ sync_threads[i].resumed}

\* at most one scheduler thread executes the loop
OneLoop == Cardinality(Looping) <= 1

\* at most one sync job is scheduled
OneJob == Len(jobs) <= 1

\* start_scheduler on a running service adds no job and starts no thread
StartIdempotent ==
    caller.op = "start_scheduler" /\ caller.was_running =>
        Len(jobs) = caller.jobs_before /\ Len(sync_threads) = caller.threads_before

\* a stopped thread runs no pending sync
StoppedNeverSyncs == \A i \in DOMAIN sync_threads : ~sync_threads[i].synced

\* C29: across start_scheduler and stop_scheduler calls made one after the other, at
\* most one scheduler thread executes the _run_scheduler loop and at most one sync job
\* is scheduled; start_scheduler on a running service adds no job and starts no thread;
\* and after stop_scheduler the thread started before runs no pending sync.
C29_OneSchedulerThread == OneLoop /\ OneJob /\ StartIdempotent /\ StoppedNeverSyncs

(***************************************************************************)
(* Claims about what the CacheManager's operations leave alone             *)
(***************************************************************************)
\* the keys of the entries a step removes
Removed == CacheKeys(cache) \ CacheKeys(cache')

\* the entries of c other than that of key k
Others(c, k) == SelectSeq(c, LAMBDA e : e.key # k)

\* the step is a get_cached_insights that finds its entry, expired or not
Finds(expired) ==
    /\ lastCall'.op = "get"
    /\ lastCall' # lastCall \/ cache' # cache
    /\ Contains(cache, lastCall'.key)
    /\ Expired(Lookup(cache, lastCall'.key), now) = expired

\* the step is a save_insights
SaveStep == lastCall'.op = "save" /\ (lastCall' # lastCall \/ cache' # cache)

\* C30: entries are removed only by clear_cache, by a get_cached_insights that finds
\* the entry expired, or by a save_insights that starts with the count at or above
\* max_cache_size; a save_insights that starts below capacity removes no entry and
\* leaves the other entries as they are; a cache hit changes neither the entries nor
\* any timestamp; and get_cache_stats, generate_cache_key and prepare_for_n8n_storage
\* leave the cache unchanged.
C30_OnlyThreeRemovers ==
    [][/\ Removed # {} =>
            \/ lastCall'.op = "clear"
            \/ Finds(TRUE) /\ Removed = {lastCall'.key}
            \/ SaveStep /\ Len(cache) >= max_cache_size
       /\ SaveStep /\ Len(cache) < max_cache_size =>
            /\ Removed = {}
            /\ Others(cache', lastCall'.key) = Others(cache, lastCall'.key)
       /\ Finds(FALSE) => cache' = cache
       /\ lastCall'.op = "tick" => cache' = cache
       /\ \/ lastCall'.op = "stats"
          \/ cache_keyA' # cache_keyA
          \/ applications' # applications
          => cache' = cache]_vars

\* get_cache_stats has just run on a cache that holds an entry and is below capacity,
\* after generate_cache_key and prepare_for_n8n_storage ran
C30_Witness ==
    /\ lastCall.op = "stats"
    /\ lastCall.stats.total_entries > 0
    /\ cache_keyA # NoKey
    /\ applications > 0
    /\ Len(cache) < max_cache_size

=============================================================================
